---- MODULE Spec2Model ----
(***************************************************************************)
(* Name resolution and rename propagation of Blockly.Class                 *)
(* (src/unnamed/part_000) together with the reference-site block           *)
(* object_variables_get (src/blocks/variables.js).                         *)
(*                                                                         *)
(* A name is a sequence of characters; a character is a one-letter string. *)
(* A number is kept as its decimal digit sequence, because the suffix      *)
(* arithmetic of findLegalName is done on JavaScript Numbers (IEEE-754     *)
(* doubles) and 2^53 does not fit a TLC integer.                           *)
(***************************************************************************)
EXTENDS Integers, Sequences, FiniteSets, TLC

\* ------------------------------------------------------------------------
\* Characters and strings
\* ------------------------------------------------------------------------

DigitChars == <<"0", "1", "2", "3", "4", "5", "6", "7", "8", "9">>

IsDigit(c) == \E i \in 1..Len(DigitChars) : DigitChars[i] = c

DigitVal(c) == (CHOOSE i \in 1..Len(DigitChars) : DigitChars[i] = c) - 1

DigitChar(v) == DigitChars[v + 1]

\* [\s\xa0]: the blank, the tab and the non-breaking space (written "~").
IsSpace(c) == c \in {" ", "\t", "~"}

Min(S) == CHOOSE x \in S : \A y \in S : x <= y

Max(S) == CHOOSE x \in S : \A y \in S : y <= x

\* name.replace(/^[\s\xa0]+|[\s\xa0]+$/g, ""): what lies between the first
\* and the last character that is no space.
Trim(s) ==
    LET kept == {i \in 1..Len(s) : ~IsSpace(s[i])}
    IN  IF kept = {} THEN <<>> ELSE SubSeq(s, Min(kept), Max(kept))

\* ------------------------------------------------------------------------
\* JavaScript Number arithmetic on decimal digit sequences
\* ------------------------------------------------------------------------

\* The digits without their leading zeros.
StripZeros(d) ==
    LET nonzero == {i \in 1..Len(d) : d[i] # "0"}
    IN  IF nonzero = {} THEN <<"0">> ELSE SubSeq(d, Min(nonzero), Len(d))

\* d + 1, exactly: the trailing nines become zeros, the digit before them
\* goes up by one.
Inc(d) ==
    LET n == Len(d)
        p == Max({i \in 1..n : d[i] # "9"} \cup {0})
    IN  IF p = 0 THEN <<"1">> \o [i \in 1..n |-> "0"]
        ELSE [i \in 1..n |->
                IF i < p THEN d[i]
                ELSE IF i = p THEN DigitChar(DigitVal(d[p]) + 1)
                ELSE "0"]

\* d - 1 for d > 0, exactly.
Dec(d) ==
    LET n == Len(d)
        p == Max({i \in 1..n : d[i] # "0"})
    IN  StripZeros([i \in 1..n |->
                      IF i < p THEN d[i]
                      ELSE IF i = p THEN DigitChar(DigitVal(d[p]) - 1)
                      ELSE "9"])

\* a < b for digit sequences without leading zeros.
NumLess(a, b) ==
    \/ Len(a) < Len(b)
    \/ /\ Len(a) = Len(b)
       /\ \E i \in 1..Len(a) :
             /\ DigitVal(a[i]) < DigitVal(b[i])
             /\ \A j \in 1..(i - 1) : a[j] = b[j]

\* d mod 4, from the last two digits.
Mod4(d) ==
    LET n == Len(d)
        tens == IF n > 1 THEN DigitVal(d[n - 1]) ELSE 0
    IN  (10 * tens + DigitVal(d[n])) % 4

\* 2^53 = 9007199254740992: up to here every integer is a double.
Two53 ==
    <<"9", "0", "0", "7", "1", "9", "9", "2", "5", "4", "7", "4", "0", "9", "9", "2">>

\* The double nearest to the integer d (ties to the even mantissa), for
\* d < 10^16: from 2^53 on the doubles are the even integers.
ToDouble(d) ==
    IF NumLess(d, Two53) THEN d
    ELSE IF Mod4(d) = 1 THEN Dec(d)
    ELSE IF Mod4(d) = 3 THEN Inc(d)
    ELSE d

\* parseInt(r[2], 10) + 1, then the Number written back as a string.
ParseIntPlusOne(digits) ==
    LET n == ToDouble(StripZeros(digits))
    IN  IF NumLess(n, Two53) THEN Inc(n)
        ELSE IF Mod4(n) = 0 THEN n
        ELSE Inc(Inc(n))

\* The length of r[2] in name.match(/^(.*?)(\d+)$/): the lazy prefix
\* leaves the longest run of digits at the end; 0 when there is no match.
TrailingDigits(name) ==
    Len(name) - Max({i \in 1..Len(name) : ~IsDigit(name[i])} \cup {0})

\* The body of the while loop of findLegalName.
Disambiguate(name) ==
    LET k == TrailingDigits(name)
        r1 == SubSeq(name, 1, Len(name) - k)
        r2 == SubSeq(name, Len(name) - k + 1, Len(name))
    IN  IF k = 0 THEN name \o <<"2">>
        ELSE r1 \o ParseIntPlusOne(r2)

\* ------------------------------------------------------------------------
\* Names used by the workspaces of the model
\* ------------------------------------------------------------------------

Car == <<"C", "a", "r">>

Car2 == <<"C", "a", "r", "2">>

Car3 == <<"C", "a", "r", "3">>

CarPadded == <<" ", "C", "a", "r", "~">>

Dog == <<"D", "o", "g">>

Dog2 == <<"D", "o", "g", "2">>

Dog3 == <<"D", "o", "g", "3">>

Dog09 == <<"D", "o", "g", "0", "9">>

Dog10 == <<"D", "o", "g", "1", "0">>

\* "x9007199254740992"
Big == <<"x">> \o Two53

\* The texts flyoutCategory gives its templates.
Klasse == <<"K">>

Funktion == <<"F">>

\* What getClassName reports for a site that is not finalized (undefined).
Absent == <<"undefined">>

\* ------------------------------------------------------------------------
\* Blocks and their capabilities
\* ------------------------------------------------------------------------

VARIABLES
    blocks,     \* the blocks of both workspaces, in traversal order
    pc,         \* position of the running validator: "idle", "find", "found"
    frame,      \* locals of the running renameClass / renameMethod call; cand is
                \* the variable name of findLegalName, prev its value one pass ago
    calls,      \* capabilities invoked by the last call, in order
    ret,        \* the last completed call and its result
    variables,  \* the variable models of the workspace, by variable id
    callbacks,  \* the callback maps of Blockly.WorkspaceSvg, by kind and key
    colour      \* the counter of Blockly.Class.colour

vars == <<blocks, pc, frame, calls, ret, variables, callbacks, colour>>

ClassBlock(ws, name) ==
    [type |-> "class_class", workspace |-> ws, name |-> name, parent |-> 0,
     varType |-> <<>>, varTypeIsSet |-> FALSE, oldName |-> <<>>]

\* A method block sits in the statement input of the class block parent.
MethodBlock(type, ws, name, parent) ==
    [type |-> type, workspace |-> ws, name |-> name, parent |-> parent,
     varType |-> <<>>, varTypeIsSet |-> FALSE, oldName |-> <<>>]

SiteBlock(ws, varType, isSet) ==
    [type |-> "object_variables_get", workspace |-> ws, name |-> <<>>, parent |-> 0,
     varType |-> varType, varTypeIsSet |-> isSet, oldName |-> <<>>]

\* A reference block of the class blocks file: bound to a class (varType)
\* and to a method (name), remembers the last old class name.
InstanceBlock(ws, className, methodName) ==
    [type |-> "class_get_instance", workspace |-> ws, name |-> methodName, parent |-> 0,
     varType |-> className, varTypeIsSet |-> TRUE, oldName |-> <<>>]

IsInFlyout(b) == b.workspace = "flyout"

HasGetClassDef(b) == b.type = "class_class"

HasGetMethodDef(b) == b.type \in {"class_function_return", "class_function_noreturn"}

HasGetClassName(b) == b.type \in {"object_variables_get", "class_get_instance"}

HasRenameClass(b) == b.type \in {"object_variables_get", "class_get_instance"}

HasSetOldName(b) == b.type = "class_get_instance"

HasRenameProcedure(b) == b.type = "class_get_instance"

GetClassDef(b) == b.name

\* getMethodDef()[0]
GetMethodDef(b) == b.name

NamesEquals(name1, name2) == name1 = name2

GetClassName(b) == IF b.varTypeIsSet THEN b.varType ELSE Absent

\* workspace.getAllBlocks(false): the indices of the workspace's blocks, in
\* traversal order.
RECURSIVE BlocksFrom(_, _, _)
BlocksFrom(bs, ws, i) ==
    IF i > Len(bs) THEN <<>>
    ELSE (IF bs[i].workspace = ws THEN <<i>> ELSE <<>>) \o BlocksFrom(bs, ws, i + 1)

GetAllBlocks(bs, ws) == BlocksFrom(bs, ws, 1)

Range(s) == {s[i] : i \in 1..Len(s)}

\* ------------------------------------------------------------------------
\* Blockly.Class: name registry and legal-name resolver
\* ------------------------------------------------------------------------

\* isNameUsed with a break where the code has continue: the scan stops at
\* the excluded block.
IsNameUsedBreak(bs, name, ws, exclude, type) ==
    \E i \in Range(GetAllBlocks(bs, ws)) :
        /\ i < exclude
        /\ \/ /\ type = "class"
              /\ HasGetClassDef(bs[i])
              /\ NamesEquals(GetClassDef(bs[i]), name)
           \/ /\ type = "method"
              /\ HasGetMethodDef(bs[i])
              /\ NamesEquals(GetMethodDef(bs[i]), name)

\* isNameUsed with the two capability tests exchanged.
IsNameUsedSwapped(bs, name, ws, exclude, type) ==
    \E i \in Range(GetAllBlocks(bs, ws)) :
        /\ i # exclude
        /\ \/ /\ type = "class"
              /\ HasGetMethodDef(bs[i])
              /\ NamesEquals(GetMethodDef(bs[i]), name)
           \/ /\ type = "method"
              /\ HasGetClassDef(bs[i])
              /\ NamesEquals(GetClassDef(bs[i]), name)

\* isNameUsed looking for method names in the class of the renamed method
\* only.
IsNameUsedPerClass(bs, name, ws, exclude, type) ==
    \E i \in Range(GetAllBlocks(bs, ws)) :
        /\ i # exclude
        /\ \/ /\ type = "class"
              /\ HasGetClassDef(bs[i])
              /\ NamesEquals(GetClassDef(bs[i]), name)
           \/ /\ type = "method"
              /\ HasGetMethodDef(bs[i])
              /\ bs[i].parent = bs[exclude].parent
              /\ NamesEquals(GetMethodDef(bs[i]), name)

\* Blockly.Class.isNameUsed(name, workspace, opt_exclude, type)
IsNameUsed(bs, name, ws, exclude, type) ==
    \E i \in Range(GetAllBlocks(bs, ws)) :
        /\ i # exclude
        /\ \/ /\ type = "class"
              /\ HasGetClassDef(bs[i])
              /\ NamesEquals(GetClassDef(bs[i]), name)
           \/ /\ type = "method"
              /\ HasGetMethodDef(bs[i])
              /\ NamesEquals(GetMethodDef(bs[i]), name)

\* Blockly.Class.isLegalName_
IsLegalName_(bs, name, ws, exclude, type) ==
    ~IsNameUsed(bs, name, ws, exclude, type)

\* ------------------------------------------------------------------------
\* Capabilities of the reference blocks
\* ------------------------------------------------------------------------

\* renameClass of the site comparing the new name with the stored one.
SiteRenameClassNew(b, oldName, newName) ==
    IF b.varTypeIsSet /\ NamesEquals(newName, b.varType)
    THEN [b EXCEPT !.varType = newName]
    ELSE b

\* renameClass of the site without the test that the binding is finalized.
SiteRenameClassUnguarded(b, oldName, newName) ==
    IF NamesEquals(oldName, b.varType)
    THEN [b EXCEPT !.varType = newName]
    ELSE b

\* object_variables_get.renameClass(oldName, newName)
SiteRenameClass(b, oldName, newName) ==
    IF b.varTypeIsSet /\ NamesEquals(oldName, b.varType)
    THEN [b EXCEPT !.varType = newName]
    ELSE b

\* renameClass of a class_get_instance block
InstanceRenameClass(b, oldName, newName) ==
    IF NamesEquals(oldName, b.varType)
    THEN [b EXCEPT !.varType = newName]
    ELSE b

BlockRenameClass(b, oldName, newName) ==
    IF b.type = "object_variables_get"
    THEN SiteRenameClass(b, oldName, newName)
    ELSE InstanceRenameClass(b, oldName, newName)

\* setOldName of a class_get_instance block
BlockSetOldName(b, oldName) == [b EXCEPT !.oldName = oldName]

\* renameProcedure of a class_get_instance block
BlockRenameProcedure(b, oldName, newName) ==
    IF NamesEquals(oldName, b.name)
    THEN [b EXCEPT !.name = newName]
    ELSE b

Call(cap, i, oldName, newName) ==
    [cap |-> cap, blk |-> i, old |-> oldName, new |-> newName]

\* ------------------------------------------------------------------------
\* Blockly.Class.renameClass and Blockly.Class.renameMethod
\* ------------------------------------------------------------------------

\* The guard without its second comparison.
PropagatesNoLegalTest(oldName, name, legalName) ==
    oldName # name

\* The guard comparing the legal name with the input and the current name.
PropagatesFromLegal(oldName, name, legalName) ==
    legalName # name /\ legalName # oldName

\* The guard of the notification loop of renameClass and of renameMethod.
Propagates(oldName, name, legalName) ==
    oldName # name /\ oldName # legalName

\* The body of the loop of renameClass handing the old name only to the
\* blocks that were bound to it.
RenameClassVisitBoundOnly(b, i, oldName, legalName) ==
    LET b1 == IF HasRenameClass(b) THEN BlockRenameClass(b, oldName, legalName) ELSE b
        c1 == IF HasRenameClass(b)
              THEN <<Call("renameClass", i, oldName, legalName)>> ELSE <<>>
        bound == HasSetOldName(b) /\ NamesEquals(oldName, b.varType)
        b2 == IF bound THEN BlockSetOldName(b1, oldName) ELSE b1
        c2 == IF bound THEN <<Call("setOldName", i, oldName, <<>>)>> ELSE <<>>
    IN  [block |-> b2, calls |-> c1 \o c2]

\* The body of the for loop of renameClass on block b, the i-th of the
\* model: the block afterwards, and the capabilities invoked.
RenameClassVisit(b, i, oldName, legalName) ==
    LET b1 == IF HasRenameClass(b) THEN BlockRenameClass(b, oldName, legalName) ELSE b
        c1 == IF HasRenameClass(b)
              THEN <<Call("renameClass", i, oldName, legalName)>> ELSE <<>>
        b2 == IF HasSetOldName(b) THEN BlockSetOldName(b1, oldName) ELSE b1
        c2 == IF HasSetOldName(b)
              THEN <<Call("setOldName", i, oldName, <<>>)>> ELSE <<>>
    IN  [block |-> b2, calls |-> c1 \o c2]

\* The body of the loop of renameMethod handing the old name to setOldName
\* as well, as the loop of renameClass does.
RenameMethodVisitOldName(b, i, oldName, legalName) ==
    LET b1 == IF HasRenameProcedure(b)
              THEN BlockRenameProcedure(b, oldName, legalName) ELSE b
        c1 == IF HasRenameProcedure(b)
              THEN <<Call("renameProcedure", i, oldName, legalName)>> ELSE <<>>
        b2 == IF HasSetOldName(b) THEN BlockSetOldName(b1, oldName) ELSE b1
        c2 == IF HasSetOldName(b)
              THEN <<Call("setOldName", i, oldName, <<>>)>> ELSE <<>>
    IN  [block |-> b2, calls |-> c1 \o c2]

\* The body of the for loop of renameMethod on block b.
RenameMethodVisit(b, i, oldName, legalName) ==
    IF HasRenameProcedure(b)
    THEN [block |-> BlockRenameProcedure(b, oldName, legalName),
          calls |-> <<Call("renameProcedure", i, oldName, legalName)>>]
    ELSE [block |-> b, calls |-> <<>>]

Visit(op, b, i, oldName, legalName) ==
    IF op = "renameClass" THEN RenameClassVisit(b, i, oldName, legalName)
    ELSE RenameMethodVisit(b, i, oldName, legalName)

\* The calls of the passes k, k + 1, ... of the for loop over idxs, in order.
RECURSIVE LoopCalls(_, _, _, _, _, _)
LoopCalls(op, bs, idxs, k, oldName, legalName) ==
    IF k > Len(idxs) THEN <<>>
    ELSE Visit(op, bs[idxs[k]], idxs[k], oldName, legalName).calls
         \o LoopCalls(op, bs, idxs, k + 1, oldName, legalName)

\* The for loop of renameClass (op = "renameClass") and of renameMethod over
\* the blocks idxs: a pass reads and writes its own block only.
NotifyLoop(op, bs, idxs, oldName, legalName) ==
    [blocks |-> [i \in 1..Len(bs) |->
                   IF i \in Range(idxs)
                   THEN Visit(op, bs[i], i, oldName, legalName).block
                   ELSE bs[i]],
     calls  |-> LoopCalls(op, bs, idxs, 1, oldName, legalName)]

\* The name field stores what its validator returns.
SetText(bs, i, legalName) == [bs EXCEPT ![i].name = legalName]

NoFrame ==
    [op |-> "none", blk |-> 0, type |-> "none", raw |-> <<>>, oldName |-> <<>>,
     name |-> <<>>, cand |-> <<>>, prev |-> Absent]

NoRet ==
    [op |-> "none", blk |-> 0, raw |-> <<>>, oldName |-> <<>>, name |-> <<>>,
     legalName |-> <<>>]

\* The names typed into the name field of a class block of the main
\* workspace, and of a method block.
ClassProposals == {Car, Car2, CarPadded, Big}

MethodProposals == {Dog, Dog09}

\* A flyout template is created with the text flyoutCategory gives it.
Proposals(b, type) ==
    IF IsInFlyout(b) THEN (IF type = "class" THEN {Klasse} ELSE {Funktion})
    ELSE IF type = "class" THEN ClassProposals
    ELSE MethodProposals

\* The entry without the flyout return of findLegalName.
EnterNoFlyout(op, type, i, raw) ==
    /\ pc = "idle"
    /\ frame' = [op |-> op, blk |-> i, type |-> type, raw |-> raw,
                 oldName |-> blocks[i].name, name |-> Trim(raw), cand |-> Trim(raw),
                 prev |-> Absent]
    /\ pc' = "find"
    /\ calls' = <<>>
    /\ ret' = NoRet
    /\ UNCHANGED <<blocks, variables, callbacks, colour>>

\* Entry of a validator up to the first test of the while loop of
\* findLegalName: the trim, and the flyout return.
Enter(op, type, i, raw) ==
    /\ pc = "idle"
    /\ frame' = [op |-> op, blk |-> i, type |-> type, raw |-> raw,
                 oldName |-> blocks[i].name, name |-> Trim(raw), cand |-> Trim(raw),
                 prev |-> Absent]
    /\ pc' = IF IsInFlyout(blocks[i]) THEN "found" ELSE "find"
    /\ calls' = <<>>
    /\ ret' = NoRet
    /\ UNCHANGED <<blocks, variables, callbacks, colour>>

\* The name field of a class block that is in a workspace is edited.
RenameClassCall ==
    \E i \in 1..Len(blocks) : \E raw \in Proposals(blocks[i], "class") :
        /\ HasGetClassDef(blocks[i])
        /\ blocks[i].workspace # "none"
        /\ Enter("renameClass", "class", i, raw)

RenameMethodCall ==
    \E i \in 1..Len(blocks) : \E raw \in Proposals(blocks[i], "method") :
        /\ HasGetMethodDef(blocks[i])
        /\ Enter("renameMethod", "method", i, raw)

\* One test of the while condition of findLegalName and, when the candidate
\* collides, one pass of the loop body.
FindLegalNameStep ==
    /\ pc = "find"
    /\ IF IsLegalName_(blocks, frame.cand, blocks[frame.blk].workspace, frame.blk,
                       frame.type)
       THEN /\ pc' = "found"
            /\ UNCHANGED frame
       ELSE /\ frame' = [frame EXCEPT !.cand = Disambiguate(frame.cand),
                                     !.prev = frame.cand]
            /\ UNCHANGED pc
    /\ UNCHANGED <<blocks, calls, ret, variables, callbacks, colour>>

\* Blockly.Variables.renameScope(workspace, oldName, legalName): the
\* variables declared of type oldName are declared of type legalName.
RenameScope(vs, oldName, legalName) ==
    [id \in DOMAIN vs |->
        IF vs[id].type = oldName THEN [vs[id] EXCEPT !.type = legalName] ELSE vs[id]]

\* The call of renameScope, with the workspace it is given.
ScopeCall(ws, oldName, legalName) ==
    Call("renameScope", 0, oldName, legalName) @@ [ws |-> ws]

Returned(legalName) ==
    [op |-> frame.op, blk |-> frame.blk, raw |-> frame.raw, oldName |-> frame.oldName,
     name |-> frame.name, legalName |-> legalName]

\* renameClass handing the legal name to every block that has renameClass,
\* whatever the old name and whatever the block is bound to.
RenameClassReturnEager ==
    /\ pc = "found"
    /\ frame.op = "renameClass"
    /\ LET legalName == frame.cand
           ws == blocks[frame.blk].workspace
           eager == [i \in 1..Len(blocks) |->
                       IF blocks[i].workspace = ws /\ HasRenameClass(blocks[i])
                       THEN [blocks[i] EXCEPT !.varType = legalName]
                       ELSE blocks[i]]
       IN  /\ blocks' = SetText(eager, frame.blk, legalName)
           /\ calls' = <<ScopeCall(ws, frame.oldName, legalName)>>
           /\ ret' = Returned(legalName)
           /\ variables' = RenameScope(variables, frame.oldName, legalName)
    /\ pc' = "idle"
    /\ frame' = NoFrame
    /\ UNCHANGED <<callbacks, colour>>

\* renameClass renaming the variable scope inside the guard of the
\* notification loop, before the blocks are notified.
RenameClassReturnScopeFirst ==
    /\ pc = "found"
    /\ frame.op = "renameClass"
    /\ LET legalName == frame.cand
           oldName == frame.oldName
           ws == blocks[frame.blk].workspace
           st0 == [blocks |-> blocks, calls |-> <<>>]
           st1 == IF Propagates(oldName, frame.name, legalName)
                  THEN NotifyLoop("renameClass", blocks, GetAllBlocks(blocks, ws),
                                  oldName, legalName)
                  ELSE st0
       IN  /\ blocks' = SetText(st1.blocks, frame.blk, legalName)
           /\ calls' = IF Propagates(oldName, frame.name, legalName)
                       THEN <<ScopeCall(ws, oldName, legalName)>> \o st1.calls
                       ELSE <<>>
           /\ ret' = Returned(legalName)
           /\ variables' = IF Propagates(oldName, frame.name, legalName)
                           THEN RenameScope(variables, oldName, legalName)
                           ELSE variables
    /\ pc' = "idle"
    /\ frame' = NoFrame
    /\ UNCHANGED <<callbacks, colour>>

\* renameClass from the return of findLegalName on: the notification loop,
\* the rename of the variable scope, and the field storing the result.
RenameClassReturn ==
    /\ pc = "found"
    /\ frame.op = "renameClass"
    /\ LET legalName == frame.cand
           oldName == frame.oldName
           ws == blocks[frame.blk].workspace
           st0 == [blocks |-> blocks, calls |-> <<>>]
           st1 == IF Propagates(oldName, frame.name, legalName)
                  THEN NotifyLoop("renameClass", blocks, GetAllBlocks(blocks, ws),
                                  oldName, legalName)
                  ELSE st0
       IN  /\ blocks' = SetText(st1.blocks, frame.blk, legalName)
           /\ calls' = Append(st1.calls, ScopeCall(ws, oldName, legalName))
           /\ ret' = Returned(legalName)
           /\ variables' = RenameScope(variables, oldName, legalName)
    /\ pc' = "idle"
    /\ frame' = NoFrame
    /\ UNCHANGED <<callbacks, colour>>

RenameMethodReturn ==
    /\ pc = "found"
    /\ frame.op = "renameMethod"
    /\ LET legalName == frame.cand
           oldName == frame.oldName
           ws == blocks[frame.blk].workspace
           st0 == [blocks |-> blocks, calls |-> <<>>]
           st1 == IF Propagates(oldName, frame.name, legalName)
                  THEN NotifyLoop("renameMethod", blocks, GetAllBlocks(blocks, ws),
                                  oldName, legalName)
                  ELSE st0
       IN  /\ blocks' = SetText(st1.blocks, frame.blk, legalName)
           /\ calls' = st1.calls
           /\ ret' = Returned(legalName)
    /\ pc' = "idle"
    /\ frame' = NoFrame
    /\ UNCHANGED <<variables, callbacks, colour>>

\* ------------------------------------------------------------------------
\* The callback maps of Blockly.WorkspaceSvg
\* ------------------------------------------------------------------------

\* The keys callbacks are registered and looked up with.
CallbackKeys == {"CLASS", "constructor"}

\* The property names that an object literal inherits from Object.prototype,
\* among the keys.
InheritedKeys == {"constructor"}

\* What the object literal {} yields for an inherited property name.
Inherited(key) == <<"function", "Object.prototype", key>>

ClassFlyoutCategory == <<"function", "Blockly.Class.flyoutCategory">>

OnClick == <<"function", "onClick">>

\* typeof func == "function"
IsFunction(func) == Len(func) > 1 /\ func[1] = "function"

\* flyoutButtonCallbacks_ and toolboxCategoryCallbacks_ start as {}: no own
\* property (Absent).
EmptyObject == [key \in CallbackKeys |-> Absent]

\* map[key]: the own property, or the one inherited from Object.prototype,
\* or undefined.
ReadProperty(map, key) ==
    IF map[key] # Absent THEN map[key]
    ELSE IF key \in InheritedKeys THEN Inherited(key)
    ELSE Absent

\* The maps after the constructor of the workspace, which registers
\* Blockly.Class.flyoutCategory under "CLASS".
InitCallbacks ==
    [button |-> EmptyObject,
     toolbox |-> [EmptyObject EXCEPT !["CLASS"] = ClassFlyoutCategory]]

\* ------------------------------------------------------------------------
\* The workspaces
\* ------------------------------------------------------------------------

\* Finalized reference sites of the main workspace that start bound to
\* class Car.
NumSites == 2

InitBlocks ==
    <<ClassBlock("main", Car),
      MethodBlock("class_function_return", "main", Dog, 1),
      ClassBlock("main", Car2),
      MethodBlock("class_function_noreturn", "main", Car, 3)>>
    \o [i \in 1..NumSites |-> SiteBlock("main", Car, TRUE)]
    \o <<SiteBlock("main", Car, FALSE),
         InstanceBlock("main", Car, Dog),
         ClassBlock("main", Dog),
         ClassBlock("flyout", Klasse),
         MethodBlock("class_function_return", "flyout", Funktion, 0),
         MethodBlock("class_function_noreturn", "flyout", Funktion, 0),
         InstanceBlock("flyout", Klasse, Funktion)>>

\* A variable model: its declared type and the flag variables_set raises.
VariableModel(type, typeSet) == [type |-> type, typeSet |-> typeSet]

InitVariables == [id \in {"car"} |-> VariableModel(Car, TRUE)]

Init ==
    /\ blocks = InitBlocks
    /\ pc = "idle"
    /\ frame = NoFrame
    /\ calls = <<>>
    /\ ret = NoRet
    /\ variables = InitVariables
    /\ callbacks = InitCallbacks
    /\ colour = 0

Next ==
    \/ RenameClassCall
    \/ RenameMethodCall
    \/ FindLegalNameStep
    \/ RenameClassReturn
    \/ RenameMethodReturn

Spec == Init /\ [][Next]_vars

\* ------------------------------------------------------------------------
\* Properties
\* ------------------------------------------------------------------------

\* The definition blocks of a kind.
IsDefinition(b, type) ==
    \/ type = "class" /\ b.type = "class_class"
    \/ type = "method" /\ b.type \in {"class_function_return", "class_function_noreturn"}

\* Another definition of the kind, in the workspace of block i, has the name.
OtherHasName(i, type, name) ==
    \E j \in 1..Len(blocks) :
        /\ j # i
        /\ blocks[j].workspace = blocks[i].workspace
        /\ IsDefinition(blocks[j], type)
        /\ blocks[j].name = name

\* findLegalName has returned to the validator.
Found == pc = "found"

\* The step in which renameClass, or renameMethod, runs from the return of
\* findLegalName to its own return.
ClassReturnStep == pc = "found" /\ frame.op = "renameClass" /\ pc' = "idle"

MethodReturnStep == pc = "found" /\ frame.op = "renameMethod" /\ pc' = "idle"

InvokedCaps == {calls[k].cap : k \in 1..Len(calls)}

\* C1: outside a flyout, the name findLegalName returns is the name of no
\* other definition block of that kind in the block's workspace.
C1_LegalNameUnused ==
    (Found /\ ~IsInFlyout(blocks[frame.blk]))
        => ~OtherHasName(frame.blk, frame.type, frame.cand)

C1_Witness ==
    /\ Found
    /\ ~IsInFlyout(blocks[frame.blk])
    /\ frame.type = "class"
    /\ frame.prev # Absent
    /\ OtherHasName(frame.blk, "class", frame.name)

\* C2: the class-definition blocks of the main workspace have pairwise
\* distinct names, whatever renameClass calls have been made.
C2_ClassNamesDistinct ==
    \A i, j \in 1..Len(blocks) :
        (/\ i # j
         /\ blocks[i].workspace = "main" /\ blocks[j].workspace = "main"
         /\ IsDefinition(blocks[i], "class") /\ IsDefinition(blocks[j], "class"))
            => blocks[i].name # blocks[j].name

C2_Witness ==
    /\ ret.op = "renameClass"
    /\ blocks[ret.blk].workspace = "main"
    /\ ret.legalName # ret.name
    /\ ret.legalName # ret.oldName
    /\ OtherHasName(ret.blk, "class", ret.name)

\* C3: when renameClass changes a class's name from oldName to legalName,
\* every reference site of the workspace that reported oldName as its class
\* name reports legalName afterwards, and none reports oldName.
C3_PropagationComplete ==
    [][(ClassReturnStep /\ frame.oldName # frame.cand)
        => \A i \in 1..Len(blocks) :
              (blocks[i].workspace = blocks[frame.blk].workspace
               /\ HasGetClassName(blocks[i]))
                 => /\ GetClassName(blocks[i]) = frame.oldName
                        => GetClassName(blocks'[i]) = frame.cand
                    /\ GetClassName(blocks'[i]) # frame.oldName]_vars

C3_Witness ==
    /\ ret.op = "renameClass"
    /\ ret.oldName = Car
    /\ ret.legalName = Big
    /\ Cardinality({i \in 1..Len(blocks) :
                      /\ blocks[i].type = "object_variables_get"
                      /\ GetClassName(blocks[i]) = Big}) = NumSites
    /\ \A i \in 1..Len(blocks) :
          HasGetClassName(blocks[i]) => GetClassName(blocks[i]) # Car

\* C4: the method-definition blocks of the main workspace have pairwise
\* distinct names, whatever classes they belong to.
C4_MethodNamesDistinct ==
    \A i, j \in 1..Len(blocks) :
        (/\ i # j
         /\ blocks[i].workspace = "main" /\ blocks[j].workspace = "main"
         /\ IsDefinition(blocks[i], "method") /\ IsDefinition(blocks[j], "method"))
            => blocks[i].name # blocks[j].name

C4_Witness ==
    /\ ret.op = "renameMethod"
    /\ blocks[ret.blk].workspace = "main"
    /\ ret.legalName # ret.name
    /\ \E j \in 1..Len(blocks) :
          /\ blocks[j].workspace = "main"
          /\ IsDefinition(blocks[j], "method")
          /\ blocks[j].parent # blocks[ret.blk].parent
          /\ blocks[j].name = ret.name

\* C5: renameClass called with the class's own current name leaves the
\* class name of every reference site, stored and reported, as it was.
C5_OwnNameKeepsSites ==
    [][(ClassReturnStep /\ frame.raw = frame.oldName)
        => \A i \in 1..Len(blocks) :
              HasGetClassName(blocks[i])
                 => /\ blocks'[i].varType = blocks[i].varType
                    /\ GetClassName(blocks'[i]) = GetClassName(blocks[i])]_vars

C5_Witness ==
    /\ ret.op = "renameClass"
    /\ ret.raw = ret.oldName
    /\ ret.oldName = Car2
    /\ \E i \in 1..Len(blocks) :
          /\ blocks[i].type = "object_variables_get"
          /\ blocks[i].workspace = blocks[ret.blk].workspace
          /\ GetClassName(blocks[i]) = Car

\* C6: when the legal name equals the current name, renameClass and
\* renameMethod invoke no renameClass, setOldName or renameProcedure and
\* change no reference block.
C6_NoOpWhenLegalIsCurrent ==
    [][((ClassReturnStep \/ MethodReturnStep) /\ frame.cand = frame.oldName)
        => /\ \A k \in 1..Len(calls') :
                 calls'[k].cap \notin {"renameClass", "setOldName", "renameProcedure"}
           /\ \A i \in 1..Len(blocks) :
                 HasGetClassName(blocks[i]) => blocks'[i] = blocks[i]]_vars

C6_Witness ==
    /\ ret.op = "renameClass"
    /\ ret.legalName = ret.oldName
    /\ ret.name # ret.oldName
    /\ InvokedCaps = {"renameScope"}

\* The loop body the resolver is meant to be: the trailing number plus one,
\* or the digit 2 appended.
NumberPlusOne(name) ==
    LET k == TrailingDigits(name)
        r1 == SubSeq(name, 1, Len(name) - k)
        r2 == SubSeq(name, Len(name) - k + 1, Len(name))
    IN  IF k = 0 THEN name \o <<"2">>
        ELSE r1 \o Inc(StripZeros(r2))

\* Class Car has been renamed to Car2 beside a class Car2 and no class Car3.
C7_ExamplesReached ==
    /\ ret.op = "renameClass"
    /\ ret.oldName = Car
    /\ ret.name = Car2
    /\ OtherHasName(ret.blk, "class", Car2)
    /\ ~OtherHasName(ret.blk, "class", Car3)

\* The examples of C7: Dog gives Dog2, Dog2 gives Dog3, a zero-padded number
\* is read as a number, and renaming Car to Car2 beside a class Car2 returns
\* Car3.
C7_Examples ==
    /\ Disambiguate(Dog) = Dog2
    /\ Disambiguate(Dog2) = Dog3
    /\ Disambiguate(Dog09) = Dog10
    /\ C7_ExamplesReached => ret.legalName = Car3

\* C7: each pass of the loop of findLegalName replaces the trailing number
\* of the colliding candidate by that number plus one, or appends 2.
C7_OneStepPerCollision ==
    (pc \in {"find", "found"} /\ frame.prev # Absent)
        => frame.cand = NumberPlusOne(frame.prev)

\* The number a name ends in, as digits; 0 when it ends in no digit.
Suffix(name) ==
    LET k == TrailingDigits(name)
    IN  IF k = 0 THEN <<"0">>
        ELSE StripZeros(SubSeq(name, Len(name) - k + 1, Len(name)))

\* C8: the loop of findLegalName terminates because every pass strictly
\* increases the numeric suffix of the candidate. A pass that leaves the
\* candidate as it was repeats forever: the workspace does not change
\* while the loop runs.
C8_SuffixIncreases ==
    (pc \in {"find", "found"} /\ frame.prev # Absent)
        => NumLess(Suffix(frame.prev), Suffix(frame.cand))

\* C9: in a flyout findLegalName returns the proposed name as it is, also
\* when another definition of the kind has it.
C9_FlyoutUnchanged ==
    (Found /\ IsInFlyout(blocks[frame.blk]))
        => frame.cand = frame.name /\ frame.prev = Absent

C9_Witness ==
    /\ Found
    /\ IsInFlyout(blocks[frame.blk])
    /\ OtherHasName(frame.blk, frame.type, frame.cand)

\* Every block of the renamed class's workspace that has renameClass was
\* handed (oldName, legalName); no block was.
AllNotified ==
    \A i \in 1..Len(blocks) :
        (blocks[i].workspace = blocks[ret.blk].workspace /\ HasRenameClass(blocks[i]))
            => \E k \in 1..Len(calls) :
                  calls[k] = Call("renameClass", i, ret.oldName, ret.legalName)

NoneNotified == "renameClass" \notin InvokedCaps

\* C10 as claimed: renameClass notifies the blocks if and only if legalName
\* differs from the raw input and from the current name.
C10_NotifiesIffLegalDiffers ==
    ret.op = "renameClass"
        => IF ret.legalName # ret.raw /\ ret.legalName # ret.oldName
           THEN AllNotified ELSE NoneNotified

\* C10: renameClass notifies the blocks if and only if the current name
\* differs from the trimmed input and from legalName.
C10_NotifiesIffCurrentDiffers ==
    ret.op = "renameClass"
        => IF ret.oldName # ret.name /\ ret.oldName # ret.legalName
           THEN AllNotified ELSE NoneNotified

C10_Witness ==
    /\ ret.op = "renameClass"
    /\ ret.legalName = ret.raw
    /\ ret.oldName # ret.legalName
    /\ AllNotified
    /\ "renameClass" \in InvokedCaps

\* ------------------------------------------------------------------------
\* Class members and the queries of the dependency index
\* ------------------------------------------------------------------------

\* null, as getFieldValue returns it for a field the block does not have.
Null == <<"null">>

\* false, as getMethodAttributes returns it when no method has the name.
False == <<"false">>

\* The truth value JavaScript gives a string, null or undefined.
Truthy(v) == v \notin {Absent, Null, <<>>}

\* a == b for strings, null and undefined.
LooseEquals(a, b) == a = b \/ {a, b} \subseteq {Absent, Null}

Animal == <<"A", "n", "i", "m", "a", "l">>

Speak == <<"s", "p", "e", "a", "k">>

Talk == <<"t", "a", "l", "k">>

Run == <<"r", "u", "n">>

Age == <<"a", "g", "e">>

Legs == <<"l", "e", "g", "s">>

MainWorkspace == "main"

\* A class block with its members: methods holds the method blocks of its
\* statement input, attributes what getAttributeInputs returns.
ClassDefinition(ws, name, methods, attributes, hue) ==
    ClassBlock(ws, name)
        @@ [methods |-> methods, attributes |-> attributes, colour |-> hue]

\* A method block with the parameter names getMethodDef()[1] returns.
MethodDefinition(type, ws, name, parent, params) ==
    MethodBlock(type, ws, name, parent) @@ [params |-> params]

\* object_variables_get after init, on the variable var: no dropdown, no
\* argument socket, an output connection and no statement connection.
ReferenceSite(ws, var, varType, isSet) ==
    SiteBlock(ws, varType, isSet)
        @@ [var |-> var, methods |-> <<>>, classVariables |-> <<>>, args |-> 0,
            argNames |-> <<>>, colourIsSet |-> FALSE, colour |-> 0,
            curValue |-> Absent, typeOfValue |-> "undefined", isReturn |-> "undefined",
            data |-> <<>>, field |-> Null, sockets |-> <<>>,
            output |-> "free", previous |-> "none", next |-> "none",
            dangling |-> FALSE]

HasGetStatement(b) == b.type = "class_class"

HasUpdate(b) == b.type \in {"object_variables_get", "class_get_instance"}

\* Blockly.Class.getClassByName: the first class block of the name, 0 for
\* false.
GetClassByName(bs, ws, className) ==
    LET hits == {i \in Range(GetAllBlocks(bs, ws)) :
                    HasGetClassDef(bs[i]) /\ GetClassDef(bs[i]) = className}
    IN  IF hits = {} THEN 0 ELSE Min(hits)

\* Blockly.Class.getMethods: the loop keeps the last class block of the name.
GetMethods(bs, ws, classname) ==
    LET hits == {i \in Range(GetAllBlocks(bs, ws)) :
                    HasGetStatement(bs[i]) /\ classname = GetClassDef(bs[i])}
    IN  IF hits = {} THEN <<>> ELSE bs[Max(hits)].methods

\* Blockly.Class.getClassVariables
GetClassVariables(bs, ws, classname) ==
    LET hits == {i \in Range(GetAllBlocks(bs, ws)) :
                    HasGetStatement(bs[i]) /\ classname = GetClassDef(bs[i])}
    IN  IF hits = {} THEN <<>> ELSE bs[Max(hits)].attributes

\* Blockly.Class.getMethodAttributes: the parameters of the first method
\* block of the name.
GetMethodAttributes(bs, ws, methodName) ==
    LET hits == {i \in Range(GetAllBlocks(bs, ws)) :
                    HasGetMethodDef(bs[i]) /\ GetMethodDef(bs[i]) = methodName}
    IN  IF hits = {} THEN False ELSE bs[Min(hits)].params

\* The elements of the sequence s at the positions where keep holds, in
\* order.
Filter(s, keep) ==
    LET idx == {k \in 1..Len(s) : keep[k]}
        nth(n) == CHOOSE k \in idx : Cardinality({j \in idx : j < k}) = n - 1
    IN  [n \in 1..Cardinality(idx) |-> s[nth(n)]]

\* getCallers without the test that the class name is present.
GetCallersAny(bs, name, ws) ==
    LET all == GetAllBlocks(bs, ws)
    IN  Filter(all, [k \in 1..Len(all) |-> HasGetClassName(bs[all[k]])])

\* Blockly.Class.getCallers
GetCallers(bs, name, ws) ==
    LET all == GetAllBlocks(bs, ws)
    IN  Filter(all, [k \in 1..Len(all) |->
                       /\ HasGetClassName(bs[all[k]])
                       /\ Truthy(GetClassName(bs[all[k]]))
                       /\ NamesEquals(GetClassName(bs[all[k]]), name)])

\* ------------------------------------------------------------------------
\* object_variables_get: the dropdown of selectable members
\* ------------------------------------------------------------------------

Option(label, value) == [label |-> label, value |-> value]

\* A method is displayed with a trailing "()".
MethodLabel(name) == name \o <<"(", ")">>

\* The test that decides whether getDropDown rebuilds, always true.
RebuildsAlways(b, methods, classVariables, oldName) == TRUE

\* The test that decides whether getDropDown rebuilds the dropdown.
Rebuilds(b, methods, classVariables, oldName) ==
    \/ Len(b.methods) # Len(methods)
    \/ Truthy(oldName)
    \/ Len(b.classVariables) # Len(classVariables)

\* The options getDropDown builds, current selection last.
BuildOptionsCurrentLast(bs, cur, typeOfValue, methods, methodNames, classVariables) ==
    LET attrs == Filter(classVariables,
                        [k \in 1..Len(classVariables) |->
                            ~(classVariables[k] = cur /\ typeOfValue = "attribute")])
        meths == Filter(methods,
                        [k \in 1..Len(methods) |->
                            ~(methodNames[k] = cur /\ typeOfValue = "method")])
        head == IF ~Truthy(cur) THEN <<>>
                ELSE IF typeOfValue = "attribute" THEN <<Option(cur, cur)>>
                ELSE <<Option(MethodLabel(cur), cur)>>
    IN  [k \in 1..Len(attrs) |-> Option(attrs[k], attrs[k])]
        \o [k \in 1..Len(meths) |->
              Option(MethodLabel(bs[meths[k]].name), bs[meths[k]].name)]
        \o head

\* The options getDropDown builds: the current selection, the other
\* attributes, the other methods under the names their blocks have now.
BuildOptions(bs, cur, typeOfValue, methods, methodNames, classVariables) ==
    LET attrs == Filter(classVariables,
                        [k \in 1..Len(classVariables) |->
                            ~(classVariables[k] = cur /\ typeOfValue = "attribute")])
        meths == Filter(methods,
                        [k \in 1..Len(methods) |->
                            ~(methodNames[k] = cur /\ typeOfValue = "method")])
        head == IF ~Truthy(cur) THEN <<>>
                ELSE IF typeOfValue = "attribute" THEN <<Option(cur, cur)>>
                ELSE <<Option(MethodLabel(cur), cur)>>
    IN  head
        \o [k \in 1..Len(attrs) |-> Option(attrs[k], attrs[k])]
        \o [k \in 1..Len(meths) |->
              Option(MethodLabel(bs[meths[k]].name), bs[meths[k]].name)]

\* object_variables_get.getDropDown(oldName, newName) on block i: the block
\* afterwards. A new dropdown shows its first option.
GetDropDown(bs, i, oldName, newName) ==
    LET b == bs[i]
        methods == GetMethods(bs, MainWorkspace, GetClassName(b))
        classVariables == GetClassVariables(bs, MainWorkspace, GetClassName(b))
        methodNames == [k \in 1..Len(methods) |->
                          IF LooseEquals(bs[methods[k]].name, oldName) THEN newName
                          ELSE bs[methods[k]].name]
        renamed == IF LooseEquals(b.curValue, oldName) THEN newName ELSE b.curValue
        gone == /\ renamed \notin Range(methodNames)
                /\ renamed \notin Range(classVariables)
        cur == IF gone THEN <<>> ELSE renamed
        typeOfValue == IF Truthy(cur)
                       THEN (IF cur \in Range(classVariables)
                             THEN "attribute" ELSE "method")
                       ELSE IF gone THEN "" ELSE b.typeOfValue
        options == BuildOptions(bs, cur, typeOfValue, methods, methodNames,
                                classVariables)
    IN  IF IsInFlyout(b) \/ ~Rebuilds(b, methods, classVariables, oldName) THEN b
        ELSE IF Len(methods) = 0 /\ Len(classVariables) = 0
        THEN [b EXCEPT !.data = <<>>, !.field = Null,
                       !.methods = methods, !.classVariables = classVariables]
        ELSE [b EXCEPT !.data = options, !.field = options[1].value,
                       !.methods = methods, !.classVariables = classVariables,
                       !.curValue = cur, !.typeOfValue = typeOfValue]

\* object_variables_get.update(oldName, legalName)
SiteUpdate(bs, i, oldName, newName) ==
    IF bs[i].varTypeIsSet THEN GetDropDown(bs, i, oldName, newName) ELSE bs[i]

\* update of a class_get_instance block: it has none of the state of the
\* member tracker.
InstanceUpdate(bs, i, oldName, newName) == bs[i]

BlockUpdate(bs, i, oldName, newName) ==
    IF bs[i].type = "object_variables_get" THEN SiteUpdate(bs, i, oldName, newName)
    ELSE InstanceUpdate(bs, i, oldName, newName)

\* ------------------------------------------------------------------------
\* object_variables_get: connection shape and argument sockets
\* ------------------------------------------------------------------------

\* A connection of the block is "none" (the block has no such connection),
\* "free" or "connected". connection.disconnect() on a connected one:
Disconnected(c) == IF c = "connected" THEN "free" ELSE c

\* setNextStatement(true), setPreviousStatement(true), setOutput(true): the
\* connection is made when the block has none.
Made(c) == IF c = "none" THEN "free" ELSE c

\* Blockly.Class.arraysEqual gives false, true or a position.
ArraysEqualFalse == -1

ArraysEqualTrue == -2

\* The length of an array; of false it is undefined.
IsArray(a) == a # False

\* Blockly.Class.arraysEqual(arr1, arr2): the loop runs from the last item
\* down, so the position it returns is the highest one that differs.
ArraysEqual(arr1, arr2) ==
    IF ~IsArray(arr1) \/ ~IsArray(arr2)
    THEN (IF arr1 = arr2 THEN ArraysEqualTrue ELSE ArraysEqualFalse)
    ELSE IF Len(arr1) # Len(arr2) THEN ArraysEqualFalse
    ELSE LET diff == {k \in 1..Len(arr1) : arr1[k] # arr2[k]}
         IN  IF diff = {} THEN ArraysEqualTrue ELSE Max(diff) - 1

\* A value-input socket "ARG" + arg with its label and whether a block is
\* plugged into it.
Socket(arg, label, child) == [arg |-> arg, label |-> label, child |-> child]

\* removeInput("ARG" + arg)
RemoveInput(sockets, arg) ==
    Filter(sockets, [k \in 1..Len(sockets) |-> sockets[k].arg # arg])

\* A connection taken off the block: when it is still connected, its peer
\* is left pointing at a connection that no longer exists.
Removed(b, conn) ==
    [b EXCEPT ![conn] = "none", !.dangling = @ \/ b[conn] = "connected"]

\* setType removing the statement connections as they are.
SetTypeNoDisconnect(b, isReturn, mode) ==
    IF b.varType # <<>> /\ b.varTypeIsSet
    THEN IF isReturn
         THEN [block |-> [Removed(Removed(b, "next"), "previous")
                            EXCEPT !.output = Made(@)],
               thrown |-> FALSE]
         ELSE IF b.output = "connected" /\ mode = "throw"
         THEN [block |-> b, thrown |-> TRUE]
         ELSE [block |-> [Removed(b, "output")
                            EXCEPT !.next = Made(@), !.previous = Made(@)],
               thrown |-> FALSE]
    ELSE [block |-> b, thrown |-> FALSE]

\* setType making the output for a return value and leaving the statement
\* connections on the block.
SetTypeOutputOnly(b, isReturn, mode) ==
    IF b.varType # <<>> /\ b.varTypeIsSet
    THEN IF isReturn
         THEN [block |-> [b EXCEPT !.output = Made(@)], thrown |-> FALSE]
         ELSE IF b.output = "connected" /\ mode = "throw"
         THEN [block |-> b, thrown |-> TRUE]
         ELSE [block |-> [Removed(b, "output")
                            EXCEPT !.next = Made(@), !.previous = Made(@)],
               thrown |-> FALSE]
    ELSE [block |-> b, thrown |-> FALSE]

\* object_variables_get.setType(isReturn): the block afterwards, and
\* whether the call threw. With a return value the statement connections
\* are disconnected and then removed, and the output is made. Without one
\* the output is removed as it is: of a connected output the host either
\* refuses the removal with an error (mode "throw") or removes the
\* connection and leaves its peer dangling (mode "dangle").
SetType(b, isReturn, mode) ==
    IF b.varType # <<>> /\ b.varTypeIsSet
    THEN IF isReturn
         THEN [block |-> [Removed(Removed([b EXCEPT !.next = Disconnected(@),
                                                    !.previous = Disconnected(@)],
                                          "next"), "previous")
                            EXCEPT !.output = Made(@)],
               thrown |-> FALSE]
         ELSE IF b.output = "connected" /\ mode = "throw"
         THEN [block |-> b, thrown |-> TRUE]
         ELSE [block |-> [Removed(b, "output")
                            EXCEPT !.next = Made(@), !.previous = Made(@)],
               thrown |-> FALSE]
    ELSE [block |-> b, thrown |-> FALSE]

\* The part of onchange that looks for the colour of the class.
OnChangeColour(bs, vs, b) ==
    LET classBlock == GetClassByName(bs, MainWorkspace, vs[b.var].type)
    IN  IF ~b.colourIsSet /\ classBlock # 0
        THEN [b EXCEPT !.colour = bs[classBlock].colour, !.colourIsSet = TRUE]
        ELSE b

\* The binding part of onchange reading the variable on every run, also
\* when the binding is finalized.
OnChangeBindAlways(bs, vs, b) ==
    LET varType == vs[b.var].type
        classBlock == GetClassByName(bs, b.workspace, varType)
    IN  IF ~IsInFlyout(b)
        THEN [b EXCEPT !.varType = varType,
                       !.colour = IF classBlock # 0 THEN bs[classBlock].colour ELSE @,
                       !.varTypeIsSet = vs[b.var].typeSet]
        ELSE b

\* The part of onchange that reads the class name from the variable until
\* the variable's type is set.
OnChangeBind(bs, vs, b) ==
    LET varType == vs[b.var].type
        classBlock == GetClassByName(bs, b.workspace, varType)
    IN  IF ~IsInFlyout(b) /\ ~b.varTypeIsSet
        THEN [b EXCEPT !.varType = varType,
                       !.colour = IF classBlock # 0 THEN bs[classBlock].colour ELSE @,
                       !.varTypeIsSet = vs[b.var].typeSet]
        ELSE b

\* The loop removing the socket before it lowers the counter.
RemoveTrailingPostDecrement(b, n) ==
    IF b.args > n
    THEN [b EXCEPT !.args = n,
                   !.sockets = Filter(b.sockets,
                                      [k \in 1..Len(b.sockets) |->
                                          b.sockets[k].arg \notin (n + 1)..b.args])]
    ELSE b

\* while (this.args > n) { this.args--; this.removeInput("ARG" + this.args); }
RemoveTrailing(b, n) ==
    IF b.args > n
    THEN [b EXCEPT !.args = n,
                   !.sockets = Filter(b.sockets,
                                      [k \in 1..Len(b.sockets) |->
                                          b.sockets[k].arg \notin n..(b.args - 1)])]
    ELSE b

\* The sockets brought to the number of the arguments, one at a time.
Reconcile(b, args) ==
    IF ~IsArray(args) \/ b.args = Len(args) THEN b
    ELSE IF b.args > Len(args) THEN RemoveTrailing(b, Len(args))
    ELSE [b EXCEPT !.args = Len(args),
                   !.sockets = b.sockets
                               \o [k \in 1..(Len(args) - b.args) |->
                                     Socket(b.args + k - 1, args[b.args + k], FALSE)]]

\* The socket ARGcount removed and made again with the label args[count],
\* before ARG(count + 1) when there is one and last otherwise.
ReplaceSocket(sockets, count, label) ==
    LET rest == RemoveInput(sockets, count)
        after == {k \in 1..Len(rest) : rest[k].arg = count + 1}
        at == IF after = {} THEN Len(rest) + 1 ELSE Min(after)
    IN  SubSeq(rest, 1, at - 1) \o <<Socket(count, label, FALSE)>>
        \o SubSeq(rest, at, Len(rest))

\* The method branch of onchange from the reading of the signature on.
OnChangeArguments(bs, b, method) ==
    LET args == GetMethodAttributes(bs, b.workspace, method)
        b1 == Reconcile([b EXCEPT !.curValue = method], args)
        count == ArraysEqual(b.argNames, args)
        b2 == IF count >= 0
              THEN [b1 EXCEPT !.sockets = ReplaceSocket(b1.sockets, count, args[count + 1])]
              ELSE b1
    IN  [b2 EXCEPT !.argNames = args]

\* object_variables_get.onchange on block i: the block afterwards, and
\* whether setType threw (the handler ends there).
OnChange(bs, vs, i, mode) ==
    LET b0 == OnChangeBind(bs, vs, OnChangeColour(bs, vs, bs[i]))
        value == b0.field
        isVar == value \in Range(b0.classVariables)
        hits == {j \in Range(GetAllBlocks(bs, b0.workspace)) :
                    HasGetMethodDef(bs[j]) /\ GetMethodDef(bs[j]) = value}
        isReturn == bs[Max(hits)].type = "class_function_return"
        b1 == [b0 EXCEPT !.typeOfValue = "method"]
        typed == IF hits = {} THEN [block |-> b1, thrown |-> FALSE]
                 ELSE SetType([b1 EXCEPT !.isReturn = IF isReturn THEN "true" ELSE "false"],
                              isReturn, mode)
        attr == SetType([b0 EXCEPT !.typeOfValue = "attribute"], TRUE, mode).block
    IN  IF ~(b0.varType # <<>> /\ b0.varTypeIsSet)
        THEN [block |-> b0, thrown |-> FALSE]
        ELSE IF Truthy(value) /\ ~IsInFlyout(b0) /\ ~isVar
        THEN (IF typed.thrown THEN typed
              ELSE [block |-> OnChangeArguments(bs, typed.block, value),
                    thrown |-> FALSE])
        ELSE [block |-> RemoveTrailing([attr EXCEPT !.curValue = value], 0),
              thrown |-> FALSE]

\* ------------------------------------------------------------------------
\* The workspace of the member tracker: one class, its members, and the
\* reference sites on its variables
\* ------------------------------------------------------------------------

ParamNames == {"a", "b", "c"}

AttributeNames == {Age, Legs}

\* The names a method is renamed to.
NewMethodNames == {Talk}

\* The variables of the workspace: pet and stray are declared of class
\* Animal, other of class Car; the type of stray is not set.
TrackerVariables ==
    [id \in {"pet", "stray", "other"} |->
        VariableModel(IF id = "other" THEN Car ELSE Animal, id # "stray")]

\* What a handler or an edit leaves in ret.
Done(op, i, thrown) == [op |-> op, blk |-> i, thrown |-> thrown]

TrackerInit(bs) ==
    /\ blocks = bs
    /\ pc = "idle"
    /\ frame = NoFrame
    /\ calls = <<>>
    /\ ret = Done("none", 0, FALSE)
    /\ variables = TrackerVariables
    /\ callbacks = InitCallbacks
    /\ colour = 0

IsSite(b) == b.type = "object_variables_get"

IsMethod(b) == HasGetMethodDef(b)

Live(b) == b.workspace = "main"

Sites == {i \in 1..Len(blocks) : IsSite(blocks[i])}

LiveMethods == {m \in 1..Len(blocks) : IsMethod(blocks[m]) /\ Live(blocks[m])}

LiveClasses == {c \in 1..Len(blocks) : HasGetStatement(blocks[c]) /\ Live(blocks[c])}

\* An edit of the user: block i becomes b.
Edit(op, i, b) ==
    /\ pc = "idle"
    /\ blocks' = [blocks EXCEPT ![i] = b]
    /\ ret' = Done(op, i, FALSE)
    /\ calls' = <<>>
    /\ UNCHANGED <<pc, frame, variables, callbacks, colour>>

\* The user exchanges a method block for one of the other kind.
ToggleReturn ==
    \E m \in LiveMethods :
        /\ Edit("toggleReturn", m,
                [blocks[m] EXCEPT !.type = IF @ = "class_function_return"
                                           THEN "class_function_noreturn"
                                           ELSE "class_function_return"])

AddParameter ==
    \E m \in LiveMethods : \E p \in ParamNames :
        /\ p \notin Range(blocks[m].params)
        /\ Edit("addParameter", m, [blocks[m] EXCEPT !.params = Append(@, p)])

RemoveParameter ==
    \E m \in LiveMethods :
        /\ Len(blocks[m].params) > 0
        /\ Edit("removeParameter", m,
                [blocks[m] EXCEPT !.params = SubSeq(@, 1, Len(@) - 1)])

RenameParameter ==
    \E m \in LiveMethods : \E p \in ParamNames :
        \E k \in 1..Len(blocks[m].params) :
            /\ p \notin Range(blocks[m].params)
            /\ Edit("renameParameter", m, [blocks[m] EXCEPT !.params[k] = p])

\* The user drags method block m out of its class: the block stays in the
\* workspace.
DetachMethod ==
    \E m \in LiveMethods :
        /\ pc = "idle"
        /\ blocks[m].parent # 0
        /\ LET c == blocks[m].parent
           IN  blocks' = [blocks EXCEPT
                             ![m].parent = 0,
                             ![c].methods = Filter(@, [k \in 1..Len(@) |-> @[k] # m])]
        /\ ret' = Done("detachMethod", m, FALSE)
        /\ calls' = <<>>
        /\ UNCHANGED <<pc, frame, variables, callbacks, colour>>

\* The user drops a method block into the class, after its other methods.
AttachMethod ==
    \E m \in LiveMethods : \E c \in LiveClasses :
        /\ pc = "idle"
        /\ blocks[m].parent = 0
        /\ blocks' = [blocks EXCEPT ![m].parent = c,
                                    ![c].methods = Append(@, m)]
        /\ ret' = Done("attachMethod", m, FALSE)
        /\ calls' = <<>>
        /\ UNCHANGED <<pc, frame, variables, callbacks, colour>>

AddAttribute ==
    \E c \in LiveClasses : \E a \in AttributeNames :
        /\ a \notin Range(blocks[c].attributes)
        /\ Edit("addAttribute", c, [blocks[c] EXCEPT !.attributes = Append(@, a)])

RemoveAttribute ==
    \E c \in LiveClasses : \E a \in AttributeNames :
        /\ a \in Range(blocks[c].attributes)
        /\ Edit("removeAttribute", c,
                [blocks[c] EXCEPT !.attributes =
                    Filter(@, [k \in 1..Len(@) |-> @[k] # a])])

\* The name field of method block m takes a name no other method has.
RenameMethodField ==
    \E m \in LiveMethods : \E n \in NewMethodNames :
        /\ ~IsNameUsed(blocks, n, blocks[m].workspace, m, "method")
        /\ n # blocks[m].name
        /\ Edit("renameMethodField", m,
                [blocks[m] EXCEPT !.name = n, !.oldName = blocks[m].name])

\* The user deletes the class block.
DisposeClass ==
    \E c \in LiveClasses :
        /\ Edit("disposeClass", c, [blocks[c] EXCEPT !.workspace = "none"])

\* The user picks an option of the dropdown of site i.
SelectMember ==
    \E i \in Sites : \E k \in 1..Len(blocks[i].data) :
        /\ blocks[i].field # blocks[i].data[k].value
        /\ Edit("selectMember", i, [blocks[i] EXCEPT !.field = blocks[i].data[k].value])

Connections == {"output", "previous", "next"}

\* The user plugs a connection of site i into another block, or pulls it
\* out.
Plug ==
    \E i \in Sites : \E c \in Connections :
        /\ blocks[i][c] # "none"
        /\ Edit("plug", i,
                [blocks[i] EXCEPT ![c] = IF @ = "free" THEN "connected" ELSE "free"])

\* The user plugs a block into an argument socket of site i, or pulls it
\* out.
PlugArgument ==
    \E i \in Sites : \E k \in 1..Len(blocks[i].sockets) :
        /\ Edit("plugArgument", i, [blocks[i] EXCEPT !.sockets[k].child = ~@])

\* The change listener runs onchange of site i.
SiteOnChange ==
    \E i \in Sites : \E mode \in {"throw", "dangle"} :
        /\ pc = "idle"
        /\ LET r == OnChange(blocks, variables, i, mode)
           IN  /\ blocks' = [blocks EXCEPT ![i] = r.block]
               /\ ret' = Done("onchange", i, r.thrown)
                            @@ [connected |-> {c \in Connections :
                                                  blocks[i][c] = "connected"}]
        /\ calls' = <<>>
        /\ UNCHANGED <<pc, frame, variables, callbacks, colour>>

\* The pairs update is called with: none, or the old and the new name of a
\* method block whose name field has changed.
UpdateArguments ==
    {<<Absent, Absent>>}
    \cup {<<blocks[m].oldName, blocks[m].name>> :
            m \in {j \in LiveMethods : blocks[j].oldName # <<>>}}

\* update called on site i by a block outside the cascade of mutateCallers.
UpdateCall ==
    \E i \in Sites : \E names \in UpdateArguments :
        /\ pc = "idle"
        /\ blocks' = [blocks EXCEPT ![i] = SiteUpdate(blocks, i, names[1], names[2])]
        /\ ret' = Done("update", i, FALSE)
        /\ calls' = <<Call("update", i, names[1], names[2])>>
        /\ UNCHANGED <<pc, frame, variables, callbacks, colour>>

\* The locals of mutateCallers; after is the edit or handler that came
\* before the call.
CascadeFrame(c, callers, k, after) ==
    [op |-> "mutateCallers", blk |-> c, callers |-> callers, k |-> k,
     after |-> after]

\* mutateCallers(block) up to its loop: the callers are looked up once.
MutateCallersCall ==
    \E c \in LiveClasses :
        /\ pc = "idle"
        /\ frame' = CascadeFrame(c, GetCallers(blocks, GetClassDef(blocks[c]),
                                               blocks[c].workspace), 1,
                                 [op |-> ret.op, blk |-> ret.blk])
        /\ pc' = "cascade"
        /\ calls' = <<>>
        /\ ret' = Done("mutateCallers.call", c, FALSE)
        /\ UNCHANGED <<blocks, variables, callbacks, colour>>

\* One pass of the loop of mutateCallers, or its return.
MutateCallersStep ==
    /\ pc = "cascade"
    /\ IF frame.k > Len(frame.callers)
       THEN /\ pc' = "idle"
            /\ frame' = NoFrame
            /\ ret' = Done("mutateCallers", frame.blk, FALSE)
            /\ UNCHANGED <<blocks, calls>>
       ELSE LET i == frame.callers[frame.k]
            IN  /\ blocks' = [blocks EXCEPT ![i] = BlockUpdate(blocks, i, Absent, Absent)]
                /\ calls' = Append(calls, Call("update", i, Absent, Absent))
                /\ frame' = [frame EXCEPT !.k = @ + 1]
                /\ ret' = Done("mutateCallers.update", i, FALSE)
                /\ UNCHANGED pc
    /\ UNCHANGED <<variables, callbacks, colour>>

\* A class with a method of each kind, a site on a variable whose type is
\* set and a site on one whose type is not.
ShapeBlocks ==
    <<ClassDefinition("main", Animal, <<2, 3>>, <<>>, 10),
      MethodDefinition("class_function_noreturn", "main", Speak, 1, <<>>),
      MethodDefinition("class_function_return", "main", Run, 1, <<>>),
      ReferenceSite("main", "pet", <<>>, FALSE),
      ReferenceSite("main", "stray", <<>>, FALSE)>>

ShapeInit == TrackerInit(ShapeBlocks)

\* The edits of the return kind and of the connections, with the handlers
\* that follow them.
ShapeNext ==
    \/ ToggleReturn
    \/ SelectMember
    \/ Plug
    \/ SiteOnChange
    \/ MutateCallersCall
    \/ MutateCallersStep

ShapeSpec == ShapeInit /\ [][ShapeNext]_vars

\* A class with one method of two parameters and a site.
ArgumentBlocks ==
    <<ClassDefinition("main", Animal, <<2>>, <<>>, 10),
      MethodDefinition("class_function_return", "main", Run, 1, <<"a", "b">>),
      ReferenceSite("main", "pet", <<>>, FALSE)>>

ArgumentInit == TrackerInit(ArgumentBlocks)

\* The edits of the parameters and of the argument sockets, with the
\* handlers that follow them.
ArgumentNext ==
    \/ AddParameter
    \/ RemoveParameter
    \/ RenameParameter
    \/ PlugArgument
    \/ SiteOnChange
    \/ UpdateCall

ArgumentSpec == ArgumentInit /\ [][ArgumentNext]_vars

\* A class with two methods and two attributes, and a site.
MemberBlocks ==
    <<ClassDefinition("main", Animal, <<2, 3>>, <<Age, Legs>>, 10),
      MethodDefinition("class_function_noreturn", "main", Speak, 1, <<>>),
      MethodDefinition("class_function_return", "main", Run, 1, <<>>),
      ReferenceSite("main", "pet", <<>>, FALSE)>>

MemberInit == TrackerInit(MemberBlocks)

\* The edits of the methods of the class, with the handlers that follow
\* them.
MemberNext ==
    \/ DetachMethod
    \/ AttachMethod
    \/ RenameMethodField
    \/ DisposeClass
    \/ SelectMember
    \/ SiteOnChange
    \/ UpdateCall

MemberSpec == MemberInit /\ [][MemberNext]_vars

\* Reference sites of the cascade's workspace on the variable pet.
NumTrackers == 2

\* A class, an instance block and sites on each of the variables, and the
\* instance template of the class in the flyout.
CascadeBlocks ==
    <<ClassDefinition("main", Animal, <<2>>, <<Age>>, 10),
      MethodDefinition("class_function_noreturn", "main", Speak, 1, <<>>),
      ReferenceSite("main", "stray", <<>>, FALSE),
      InstanceBlock("main", Animal, Speak)>>
    \o [k \in 1..NumTrackers |-> ReferenceSite("main", "pet", <<>>, FALSE)]
    \o <<ReferenceSite("main", "other", <<>>, FALSE),
         InstanceBlock("flyout", Animal, Speak)>>

CascadeInit == TrackerInit(CascadeBlocks)

\* The cascade of mutateCallers between edits of the attributes.
CascadeNext ==
    \/ AddAttribute
    \/ RemoveAttribute
    \/ SiteOnChange
    \/ MutateCallersCall
    \/ MutateCallersStep

CascadeSpec == CascadeInit /\ [][CascadeNext]_vars

\* A class with a method and an attribute, and a site.
RefreshBlocks ==
    <<ClassDefinition("main", Animal, <<2>>, <<Age>>, 10),
      MethodDefinition("class_function_noreturn", "main", Speak, 1, <<>>),
      ReferenceSite("main", "pet", <<>>, FALSE)>>

RefreshInit == TrackerInit(RefreshBlocks)

\* The cascade of mutateCallers between renames of the method and edits of
\* the attributes.
RefreshNext ==
    \/ RenameMethodField
    \/ AddAttribute
    \/ RemoveAttribute
    \/ SelectMember
    \/ SiteOnChange
    \/ MutateCallersCall
    \/ MutateCallersStep

RefreshSpec == RefreshInit /\ [][RefreshNext]_vars

\* ------------------------------------------------------------------------
\* Properties of the member tracker
\* ------------------------------------------------------------------------

\* The site presents as an expression, or as a statement.
IsExpression(b) == b.output # "none" /\ b.previous = "none" /\ b.next = "none"

IsStatement(b) == b.output = "none" /\ b.previous # "none" /\ b.next # "none"

\* The shape of site b is the one method block m asks for, and no peer of a
\* removed connection is left behind.
ShapeMatches(b, m) ==
    /\ ~b.dangling
    /\ IF blocks[m].type = "class_function_return" THEN IsExpression(b)
       ELSE IsStatement(b)

\* Site i is finalized and bound to method block m of class block c.
BoundToMethod(i, m, c) ==
    /\ blocks[i].varTypeIsSet
    /\ GetClassName(blocks[i]) = blocks[c].name
    /\ blocks[i].typeOfValue = "method"
    /\ blocks[i].curValue = blocks[m].name
    /\ blocks[m].parent = c

\* mutateCallers has made its last update and is about to return.
CascadeDone == pc = "cascade" /\ frame.k > Len(frame.callers)

\* C11: when the return kind of a method has been toggled and mutateCallers
\* has run on its class, every site bound to the method has the shape the
\* method now asks for, with no connection left dangling.
C11_ShapeFollowsCascade ==
    (CascadeDone /\ frame.after.op = "toggleReturn")
        => \A i \in Sites :
              BoundToMethod(i, frame.after.blk, frame.blk)
                 => ShapeMatches(blocks[i], frame.after.blk)

\* C12: when onchange gives a site the statement shape, a connected output
\* is disconnected before it is removed: the handler ends without an error
\* and leaves no peer of the output dangling.
C12_OutputDisconnectedFirst ==
    ret.op = "onchange" => ~ret.thrown /\ ~blocks[ret.blk].dangling

\* The method block whose kind onchange of site i reads: the last one of
\* the workspace named like the dropdown's value; 0 when there is none or
\* the value is an attribute.
SelectedMethod(i) ==
    LET named == {m \in LiveMethods :
                     /\ blocks[m].name = blocks[i].field
                     /\ blocks[i].field \notin Range(blocks[i].classVariables)}
    IN  IF named = {} THEN 0 ELSE Max(named)

\* The step is onchange of site i, and the site is finalized when it ends.
OnChangeStep(i) ==
    /\ ret'.op = "onchange"
    /\ ret'.blk = i
    /\ blocks'[i].varTypeIsSet
    /\ blocks'[i].varType # <<>>

\* C13: when onchange finds that the selected method of a site has a
\* return value, the site ends as an expression (an output, no previous and
\* no next connection) and a statement connection that was connected is
\* disconnected before it is removed.
C13_ExpressionShape ==
    [][\A i \in Sites :
          (/\ OnChangeStep(i)
           /\ SelectedMethod(i) # 0
           /\ blocks[SelectedMethod(i)].type = "class_function_return")
             => /\ IsExpression(blocks'[i])
                /\ blocks'[i].dangling = blocks[i].dangling
                /\ ~ret'.thrown]_vars

C13_Witness ==
    /\ ret.op = "onchange"
    /\ ~ret.thrown
    /\ {"previous", "next"} \subseteq ret.connected
    /\ blocks[ret.blk].typeOfValue = "method"
    /\ blocks[ret.blk].isReturn = "true"
    /\ IsExpression(blocks[ret.blk])
    /\ ~blocks[ret.blk].dangling

\* Site i is finalized and its selection is method block m of its class.
SelectsMethod(i, m) ==
    \E c \in LiveClasses : BoundToMethod(i, m, c)

\* C14: after update() on a site bound to a method, the site has as many
\* value-input sockets as the method has parameters (three, when a method
\* of two parameters has gained a third).
C14_SocketsMatchAfterUpdate ==
    ret.op = "update"
        => \A m \in LiveMethods :
              SelectsMethod(ret.blk, m)
                 => Len(blocks[ret.blk].sockets) = Len(blocks[m].params)

\* C15: after onchange of a site whose selected member is a method, the
\* label of every value-input socket is the parameter name at its position
\* in the method's signature.
C15_LabelsFollowSignature ==
    (ret.op = "onchange" /\ ~ret.thrown)
        => \A m \in LiveMethods :
              SelectsMethod(ret.blk, m)
                 => /\ Len(blocks[ret.blk].sockets) = Len(blocks[m].params)
                    /\ \A k \in 1..Len(blocks[ret.blk].sockets) :
                          /\ blocks[ret.blk].sockets[k].arg = k - 1
                          /\ blocks[ret.blk].sockets[k].label = blocks[m].params[k]

\* The attribute names and the method names of the class blocks called
\* name.
MembersOf(name) ==
    UNION {Range(blocks[c].attributes)
              \cup {blocks[m].name : m \in Range(blocks[c].methods)} :
           c \in {d \in LiveClasses : blocks[d].name = name}}

\* The values of the options of the dropdown of block b.
OptionValues(b) == {b.data[k].value : k \in 1..Len(b.data)}

\* The step is update(oldName, newName) on site i, called by itself.
UpdateStep(i) == ret'.op = "update" /\ ret'.blk = i

\* C16: after a refresh of a finalized site whose selected member is no
\* longer an attribute or a method of the bound class (also when the class
\* has no members or is gone), the selection is cleared and the kind unset.
C16_SelectionCleared ==
    [][\A i \in Sites :
          (/\ UpdateStep(i)
           /\ blocks[i].varTypeIsSet
           /\ Truthy(blocks[i].curValue)
           /\ blocks[i].curValue # calls'[1].old
           /\ blocks[i].curValue \notin MembersOf(GetClassName(blocks[i])))
             => /\ ~Truthy(blocks'[i].curValue)
                /\ blocks'[i].typeOfValue \in {"", "undefined"}]_vars

\* C17: when mutateCallers has run on a class, the dropdown of every
\* finalized site bound to the class offers exactly the attributes and the
\* methods the class has now.
C17_ListIsCurrentAfterCascade ==
    ret.op = "mutateCallers"
        => \A i \in Sites :
              (blocks[i].varTypeIsSet /\ GetClassName(blocks[i]) = blocks[ret.blk].name)
                 => OptionValues(blocks[i]) = MembersOf(blocks[ret.blk].name)

\* The blocks mutateCallers of class block c has to update: the blocks of
\* its workspace that report its name as their class.
BoundBlocks(c) ==
    {i \in 1..Len(blocks) :
        /\ blocks[i].workspace = blocks[c].workspace
        /\ HasGetClassName(blocks[i])
        /\ blocks[i].varTypeIsSet
        /\ blocks[i].varType = blocks[c].name}

\* C18: mutateCallers calls update() once on every block bound to the
\* class, in traversal order and on the list of callers it looked up at
\* the start, one call per pass; no pass changes a class name, a method
\* name or the class name of a reference block.
C18_CascadeInOrder ==
    [][pc = "cascade"
        => /\ \A j \in 1..Len(blocks) :
                 /\ blocks'[j].name = blocks[j].name
                 /\ blocks'[j].varType = blocks[j].varType
                 /\ blocks'[j].varTypeIsSet = blocks[j].varTypeIsSet
           /\ pc' = "cascade"
                 => /\ frame'.callers = frame.callers
                    /\ calls' = Append(calls, Call("update", frame.callers[frame.k],
                                                   Absent, Absent))
           /\ pc' = "idle"
                 => /\ Len(calls') = Cardinality(BoundBlocks(frame.blk))
                    /\ \A k \in 1..Len(calls') :
                          /\ calls'[k].cap = "update"
                          /\ calls'[k].blk \in BoundBlocks(frame.blk)
                          /\ k < Len(calls') => calls'[k].blk < calls'[k + 1].blk]_vars

C18_Witness ==
    /\ ret.op = "mutateCallers"
    /\ Len(calls) = NumTrackers + 1
    /\ \E i \in Sites : i \notin {calls[k].blk : k \in 1..Len(calls)}
    /\ \E k \in 1..Len(calls) : ~IsSite(blocks[calls[k].blk])
    /\ \A k \in 1..Len(calls) :
          IsSite(blocks[calls[k].blk]) => blocks[calls[k].blk].data # <<>>

\* The place of a member in the class called name: its attributes in
\* order, then its methods in order.
MemberRank(name, member) ==
    LET c == CHOOSE d \in LiveClasses : blocks[d].name = name
        all == blocks[c].attributes
               \o [k \in 1..Len(blocks[c].methods) |-> blocks[blocks[c].methods[k]].name]
    IN  Min({k \in 1..Len(all) : all[k] = member})

IsAttributeOf(name, member) ==
    \E c \in LiveClasses : blocks[c].name = name /\ member \in Range(blocks[c].attributes)

\* The option list data of a site of the class called name with the
\* selection cur is well formed.
WellFormedOptions(name, cur, data) ==
    LET first == IF Truthy(cur) THEN 2 ELSE 1
    IN  /\ Truthy(cur) => data[1].value = cur
        /\ \A p, q \in 1..Len(data) : p # q => data[p].value # data[q].value
        /\ {data[k].value : k \in 1..Len(data)} = MembersOf(name)
        /\ \A p, q \in first..Len(data) :
              p < q => MemberRank(name, data[p].value) < MemberRank(name, data[q].value)
        /\ \A k \in 1..Len(data) :
              data[k].label = IF IsAttributeOf(name, data[k].value)
                              THEN data[k].value
                              ELSE MethodLabel(data[k].value)

\* The step is an update of site i that rebuilds the dropdown of a class
\* that has members.
RebuildStep(i) ==
    /\ UpdateStep(i)
    /\ blocks[i].varTypeIsSet
    /\ MembersOf(GetClassName(blocks[i])) # {}
    /\ Rebuilds(blocks[i], GetMethods(blocks, MainWorkspace, GetClassName(blocks[i])),
                GetClassVariables(blocks, MainWorkspace, GetClassName(blocks[i])),
                calls'[1].old)

\* C19: a rebuilt option list holds the current selection first and once,
\* then the other attributes in class order, then the other methods in
\* class order; an attribute is shown by its name, a method by its name and
\* "()", and the value of an option is the name of the member.
C19_OptionOrder ==
    [][\A i \in Sites :
          RebuildStep(i)
             => WellFormedOptions(GetClassName(blocks[i]), blocks'[i].curValue,
                                  blocks'[i].data)]_vars

C19_Witness ==
    /\ ret.op = "update"
    /\ Len(calls) = 1
    /\ Truthy(calls[1].old)
    /\ blocks[ret.blk].curValue = calls[1].new
    /\ Len(blocks[ret.blk].data) = 4
    /\ blocks[ret.blk].data[1].label = MethodLabel(calls[1].new)
    /\ blocks[ret.blk].typeOfValue = "method"

\* C20: update() with no old name leaves a finalized site as it is
\* (dropdown, stored methods, stored attributes, selection) when the class
\* has as many methods and as many attributes as the site has stored.
C20_NoRebuildWhenCountsEqual ==
    [][\A i \in Sites :
          (/\ UpdateStep(i)
           /\ blocks[i].varTypeIsSet
           /\ ~Truthy(calls'[1].old)
           /\ Len(blocks[i].methods)
                 = Len(GetMethods(blocks, MainWorkspace, GetClassName(blocks[i])))
           /\ Len(blocks[i].classVariables)
                 = Len(GetClassVariables(blocks, MainWorkspace, GetClassName(blocks[i]))))
             => blocks'[i] = blocks[i]]_vars

C20_Witness ==
    /\ ret.op = "update"
    /\ Len(calls) = 1
    /\ ~Truthy(calls[1].old)
    /\ blocks[ret.blk].varTypeIsSet
    /\ blocks[ret.blk].data # <<>>
    /\ OptionValues(blocks[ret.blk]) # MembersOf(GetClassName(blocks[ret.blk]))
    /\ blocks[ret.blk].field # blocks[ret.blk].curValue

\* ------------------------------------------------------------------------
\* The binding of a reference site to the class of its variable
\* ------------------------------------------------------------------------

Ghost == <<"G", "h", "o", "s", "t">>

\* variables_set after init, on the variable var; value tells whether a
\* block sits in its input VALUE.
VariablesSet(ws, var, value) ==
    [type |-> "variables_set", workspace |-> ws, name |-> <<>>, parent |-> 0,
     varType |-> <<>>, varTypeIsSet |-> FALSE, oldName |-> <<>>,
     var |-> var, setInit |-> FALSE, colourIsSet |-> FALSE, colour |-> 0,
     check |-> Null, value |-> value]

IsSetter(b) == b.type = "variables_set"

Setters == {i \in 1..Len(blocks) : IsSetter(blocks[i])}

\* variables_set.onchange raising the flag of the variable whether or not
\* a block sits in the input VALUE.
VariablesSetOnChangeAlways(bs, vs, i) ==
    LET b0 == OnChangeColour(bs, vs, bs[i])
        varType == vs[b0.var].type
        classBlock == GetClassByName(bs, b0.workspace, varType)
        b1 == IF ~IsInFlyout(b0) /\ ~b0.setInit
              THEN [b0 EXCEPT !.varType = varType,
                              !.check = IF varType # <<>> THEN varType ELSE @,
                              !.colour = IF classBlock # 0
                                         THEN bs[classBlock].colour ELSE @,
                              !.setInit = TRUE]
              ELSE b0
    IN  [block |-> b1,
         variables |-> IF ~IsInFlyout(b0)
                       THEN [vs EXCEPT ![b0.var].typeSet = TRUE]
                       ELSE vs]

\* variables_set.onchange: the block afterwards and the variable models.
VariablesSetOnChange(bs, vs, i) ==
    LET b0 == OnChangeColour(bs, vs, bs[i])
        varType == vs[b0.var].type
        classBlock == GetClassByName(bs, b0.workspace, varType)
        b1 == IF ~IsInFlyout(b0) /\ ~b0.setInit
              THEN [b0 EXCEPT !.varType = varType,
                              !.check = IF varType # <<>> THEN varType ELSE @,
                              !.colour = IF classBlock # 0
                                         THEN bs[classBlock].colour ELSE @,
                              !.setInit = TRUE]
              ELSE b0
    IN  [block |-> b1,
         variables |-> IF ~IsInFlyout(b0) /\ b0.value
                       THEN [vs EXCEPT ![b0.var].typeSet = TRUE]
                       ELSE vs]

\* The change listener runs onchange of the variables_set block i.
SetterOnChange ==
    \E i \in Setters :
        /\ pc = "idle"
        /\ LET r == VariablesSetOnChange(blocks, variables, i)
           IN  /\ blocks' = [blocks EXCEPT ![i] = r.block]
               /\ variables' = r.variables
        /\ ret' = Done("setter.onchange", i, FALSE)
        /\ calls' = <<>>
        /\ UNCHANGED <<pc, frame, callbacks, colour>>

\* The user plugs a block into the input VALUE of the variables_set block
\* i, or pulls it out.
PlugValue ==
    \E i \in Setters :
        Edit("plugValue", i, [blocks[i] EXCEPT !.value = ~@])

\* The variables pet, declared of class Animal, and ghost, declared of a
\* class no block defines; no type is set yet.
BindVariables ==
    [id \in {"pet", "ghost"} |->
        VariableModel(IF id = "pet" THEN Animal ELSE Ghost, FALSE)]

BindBlocks ==
    <<ClassDefinition("main", Animal, <<2>>, <<Age>>, 10),
      MethodDefinition("class_function_noreturn", "main", Speak, 1, <<>>),
      VariablesSet("main", "pet", FALSE),
      VariablesSet("main", "ghost", FALSE),
      ReferenceSite("main", "pet", <<>>, FALSE),
      ReferenceSite("main", "ghost", <<>>, FALSE)>>

BindInit ==
    /\ blocks = BindBlocks
    /\ pc = "idle"
    /\ frame = NoFrame
    /\ calls = <<>>
    /\ ret = Done("none", 0, FALSE)
    /\ variables = BindVariables
    /\ callbacks = InitCallbacks
    /\ colour = 0

BindNext ==
    \/ PlugValue
    \/ SetterOnChange
    \/ SiteOnChange
    \/ DisposeClass
    \/ SelectMember
    \/ UpdateCall

BindSpec == BindInit /\ [][BindNext]_vars

\* Site i resolves a live class block for the type of its variable.
ResolvesClass(i) ==
    \E c \in LiveClasses : blocks[c].name = variables[blocks[i].var].type

\* C21: the flag varTypeIsSet of a site is raised by the first onchange that
\* finds a live class block for the type of the site's variable, and by no
\* other step: a site whose class name no class block has stays unfinalized.
C21_FinalizedOnResolve ==
    [][\A i \in Sites :
          /\ (~blocks[i].varTypeIsSet /\ blocks'[i].varTypeIsSet) => ResolvesClass(i)
          /\ (/\ ~blocks[i].varTypeIsSet
               /\ ret'.op = "onchange"
               /\ ret'.blk = i
               /\ ResolvesClass(i))
                => blocks'[i].varTypeIsSet]_vars

\* The blocks of the workspace of class block c whose getClassName
\* reports a name.
Reporting(c) ==
    {i \in 1..Len(blocks) :
        /\ blocks[i].workspace = blocks[c].workspace
        /\ blocks[i].type \in {"object_variables_get", "class_get_instance"}
        /\ blocks[i].varTypeIsSet}

\* C22: getCallers(name, workspace) returns the blocks of the workspace
\* that have getClassName and report the class name name, each once, in
\* the order of getAllBlocks.
C22_CallersExact ==
    ret.op = "mutateCallers.call"
        => /\ Range(frame.callers)
                 = {i \in Reporting(ret.blk) : blocks[i].varType = blocks[ret.blk].name}
           /\ \A p, q \in 1..Len(frame.callers) :
                 p < q => frame.callers[p] < frame.callers[q]

C22_Witness ==
    /\ ret.op = "mutateCallers.call"
    /\ Len(frame.callers) = NumTrackers + 1
    /\ \E i \in Sites :
          /\ blocks[i].varType = blocks[ret.blk].name
          /\ ~blocks[i].varTypeIsSet
    /\ \E i \in Reporting(ret.blk) : blocks[i].varType # blocks[ret.blk].name
    /\ \E i \in 1..Len(blocks) :
          /\ blocks[i].workspace # blocks[ret.blk].workspace
          /\ blocks[i].varTypeIsSet
          /\ blocks[i].varType = blocks[ret.blk].name

\* A definition of the other kind, in the workspace of block i, has the
\* name.
OtherKindHasName(i, type, name) ==
    \E j \in 1..Len(blocks) :
        /\ blocks[j].workspace = blocks[i].workspace
        /\ IsDefinition(blocks[j], IF type = "class" THEN "method" ELSE "class")
        /\ blocks[j].name = name

\* C23: isNameUsed is true exactly when another block of the kind asked for
\* has the name, so findLegalName returns a proposed name that only
\* definitions of the other kind have as it is.
C23_KindsDoNotCollide ==
    /\ pc = "find"
          => (IsNameUsed(blocks, frame.cand, blocks[frame.blk].workspace, frame.blk,
                         frame.type)
                 <=> OtherHasName(frame.blk, frame.type, frame.cand))
    /\ (pc = "found" /\ ~OtherHasName(frame.blk, frame.type, frame.name))
          => frame.cand = frame.name

C23_Witness ==
    /\ pc = "found"
    /\ ~IsInFlyout(blocks[frame.blk])
    /\ frame.oldName # frame.name
    /\ frame.cand = frame.name
    /\ OtherKindHasName(frame.blk, frame.type, frame.name)

\* ------------------------------------------------------------------------
\* The queries of Blockly.Class
\* ------------------------------------------------------------------------

HasGetConstructor(b) == b.type = "class_class"

\* getConstructor of a class block: its constructor descriptor, or null
\* when it has none.
BlockGetConstructor(b) == b.constructor

\* getConstructor answering with the constructor of the first class block.
GetConstructorAnyClass(bs, ws, className) ==
    LET hits == {i \in Range(GetAllBlocks(bs, ws)) :
                    HasGetConstructor(bs[i]) /\ HasGetClassDef(bs[i])}
    IN  IF hits = {} THEN False ELSE BlockGetConstructor(bs[Min(hits)])

\* Blockly.Class.getConstructor
GetConstructor(bs, ws, className) ==
    LET hits == {i \in Range(GetAllBlocks(bs, ws)) :
                    /\ HasGetConstructor(bs[i])
                    /\ HasGetClassDef(bs[i])
                    /\ LooseEquals(GetClassDef(bs[i]), className)}
    IN  IF hits = {} THEN False ELSE BlockGetConstructor(bs[Min(hits)])

\* Blockly.Class.allUsedClasses
AllUsedClasses(bs, ws) ==
    LET all == GetAllBlocks(bs, ws)
        defs == Filter(all, [k \in 1..Len(all) |-> HasGetClassDef(bs[all[k]])])
    IN  [k \in 1..Len(defs) |-> GetClassDef(bs[defs[k]])]

Gap == 16

GapLast == 24

\* A block element of the flyout: its type, its gap, the text of its field
\* NAME and the name of its mutation.
Template(type, gap, field, mutation) ==
    [type |-> type, gap |-> gap, field |-> field, mutation |-> mutation]

SystemBlocks ==
    <<"class_class", "class_function_return", "class_function_noreturn",
      "class_constructor">>

\* The element flyoutCategory makes for the system block of a type.
SystemTemplate(type) ==
    Template(type, Gap,
             IF type = "class_class" THEN Klasse
             ELSE IF type = "class_constructor" THEN Absent
             ELSE Funktion,
             Absent)

\* flyoutCategory listing the classes before the system blocks.
FlyoutCategoryClassesFirst(bs, ws, registered) ==
    LET system == Filter(SystemBlocks,
                         [k \in 1..Len(SystemBlocks) |-> SystemBlocks[k] \in registered])
        classes == AllUsedClasses(bs, ws)
    IN  [k \in 1..Len(classes) |->
            Template("class_get_instance", Gap, Absent, classes[k])]
        \o [k \in 1..Len(system) |-> SystemTemplate(system[k])]

\* Blockly.Class.flyoutCategory(workspace); registered holds the types that
\* Blockly.Blocks has.
FlyoutCategory(bs, ws, registered) ==
    LET system == Filter(SystemBlocks,
                         [k \in 1..Len(SystemBlocks) |-> SystemBlocks[k] \in registered])
        xmlList == [k \in 1..Len(system) |->
                      [SystemTemplate(system[k])
                          EXCEPT !.gap = IF k = Len(system) THEN GapLast ELSE @]]
        classes == AllUsedClasses(bs, ws)
    IN  xmlList
        \o [k \in 1..Len(classes) |->
              Template("class_get_instance", Gap, Absent, classes[k])]

QueryNames ==
    {"getClassByName", "allUsedClasses", "getMethods", "getClassVariables",
     "getCallers", "getConstructor", "getMethodAttributes", "isNameUsed",
     "flyoutCategory"}

\* The arguments of a query: a workspace, a name, and for isNameUsed the
\* excluded block (0 for none) and the kind; for flyoutCategory the types
\* Blockly.Blocks has.
QueryArguments(bs, q) ==
    [ws : {"main", "flyout"},
     name : IF q \in {"allUsedClasses", "flyoutCategory"} THEN {<<>>}
            ELSE {Animal, Ghost, Speak},
     exclude : IF q = "isNameUsed" THEN 0..Len(bs) ELSE {0},
     type : IF q = "isNameUsed" THEN {"class", "method"} ELSE {"none"},
     registered : IF q = "flyoutCategory" THEN SUBSET Range(SystemBlocks) ELSE {{}}]

\* What query q returns for the arguments a.
RunQuery(q, bs, a) ==
    CASE q = "getClassByName" ->
            LET c == GetClassByName(bs, a.ws, a.name)
            IN  IF c = 0 THEN False ELSE <<"block", c>>
      [] q = "allUsedClasses" -> AllUsedClasses(bs, a.ws)
      [] q = "getMethods" -> GetMethods(bs, a.ws, a.name)
      [] q = "getClassVariables" -> GetClassVariables(bs, a.ws, a.name)
      [] q = "getCallers" -> GetCallers(bs, a.name, a.ws)
      [] q = "getConstructor" -> GetConstructor(bs, a.ws, a.name)
      [] q = "getMethodAttributes" -> GetMethodAttributes(bs, a.ws, a.name)
      [] q = "isNameUsed" -> IsNameUsed(bs, a.name, a.ws, a.exclude, a.type)
      [] q = "flyoutCategory" -> FlyoutCategory(bs, a.ws, a.registered)

\* A query that notes the name it was asked for on the blocks it returns
\* or scans past.
QueryCallNoting ==
    \E q \in QueryNames : \E a \in QueryArguments(blocks, q) :
        /\ pc = "idle"
        /\ ret' = Done("query", 0, FALSE)
                     @@ [query |-> q, args |-> a, result |-> RunQuery(q, blocks, a)]
        /\ blocks' = [i \in 1..Len(blocks) |->
                         IF blocks[i].workspace = a.ws /\ HasGetClassName(blocks[i])
                         THEN [blocks[i] EXCEPT !.varTypeIsSet = TRUE]
                         ELSE blocks[i]]
        /\ calls' = <<>>
        /\ UNCHANGED <<pc, frame, variables, callbacks, colour>>

\* A call of one of the queries.
QueryCall ==
    \E q \in QueryNames : \E a \in QueryArguments(blocks, q) :
        /\ pc = "idle"
        /\ ret' = Done("query", 0, FALSE)
                     @@ [query |-> q, args |-> a, result |-> RunQuery(q, blocks, a)]
        /\ calls' = <<>>
        /\ UNCHANGED <<blocks, pc, frame, variables, callbacks, colour>>

\* Two classes, one with a constructor, a method, a site and an instance
\* block, and the templates of the flyout.
QueryBlocks ==
    <<ClassDefinition("main", Animal, <<2>>, <<Age>>, 10) @@ [constructor |-> <<"a">>],
      MethodDefinition("class_function_noreturn", "main", Speak, 1, <<"a", "b">>),
      ClassDefinition("main", Speak, <<>>, <<>>, 20) @@ [constructor |-> Null],
      ReferenceSite("main", "pet", <<>>, FALSE),
      ReferenceSite("main", "stray", <<>>, FALSE),
      InstanceBlock("main", Animal, Speak),
      ClassDefinition("flyout", Klasse, <<>>, <<>>, 30) @@ [constructor |-> Null],
      MethodDefinition("class_function_return", "flyout", Funktion, 0, <<>>),
      InstanceBlock("flyout", Animal, Funktion)>>

QueryInit == TrackerInit(QueryBlocks)

QueryNext ==
    \/ QueryCall
    \/ DisposeClass
    \/ SiteOnChange

QuerySpec == QueryInit /\ [][QueryNext]_vars

\* The last step was query q.
Asked(q) == ret.op = "query" /\ ret.query = q

\* No class block of the workspace asked about has the name asked for.
NoSuchClass ==
    ~\E i \in 1..Len(blocks) :
        /\ blocks[i].type = "class_class"
        /\ blocks[i].workspace = ret.args.ws
        /\ blocks[i].name = ret.args.name

\* C24: asked about a class name that no class block of the workspace has,
\* getMethods and getClassVariables return the empty list and
\* getConstructor and getClassByName return false; none of them throws.
C24_AbsentClass ==
    (ret.op = "query" /\ NoSuchClass)
        => /\ ~ret.thrown
           /\ ret.query \in {"getMethods", "getClassVariables"} => ret.result = <<>>
           /\ ret.query \in {"getConstructor", "getClassByName"} => ret.result = False

C24_Witness ==
    /\ Asked("getConstructor")
    /\ NoSuchClass
    /\ ret.result = False
    /\ \E i \in 1..Len(blocks) :
          /\ blocks[i].type = "class_class"
          /\ blocks[i].workspace = "none"
          /\ blocks[i].name = ret.args.name
          /\ blocks[i].constructor # Null

ClassesOf(ws) ==
    LET all == GetAllBlocks(blocks, ws)
    IN  Filter(all, [k \in 1..Len(all) |-> blocks[all[k]].type = "class_class"])

\* C28: flyoutCategory returns one element for each of class_class,
\* class_function_return, class_function_noreturn and class_constructor that
\* is registered, in this order, and after them one class_get_instance
\* element for each class block of the workspace, in traversal order, whose
\* mutation carries the name of the class.
C28_FlyoutList ==
    Asked("flyoutCategory")
        => LET list == ret.result
               n == Cardinality(ret.args.registered)
               classes == ClassesOf(ret.args.ws)
           IN  /\ Len(list) = n + Len(classes)
               /\ {list[k].type : k \in 1..n} = ret.args.registered
               /\ \A p, q \in 1..n :
                     p < q => \E x, y \in 1..Len(SystemBlocks) :
                                 /\ x < y
                                 /\ SystemBlocks[x] = list[p].type
                                 /\ SystemBlocks[y] = list[q].type
               /\ \A k \in 1..Len(classes) :
                     /\ list[n + k].type = "class_get_instance"
                     /\ list[n + k].mutation = blocks[classes[k]].name

C28_Witness ==
    /\ Asked("flyoutCategory")
    /\ ret.args.ws = "main"
    /\ Cardinality(ret.args.registered) = 3
    /\ Len(ret.result) = 4
    /\ ret.result[4].mutation = Speak
    /\ \E i \in 1..Len(blocks) : blocks[i].type = "class_class" /\ blocks[i].workspace = "none"

\* The positions of calls' at which capability cap is invoked.
InvokedAt(cap) == {k \in 1..Len(calls') : calls'[k].cap = cap}

\* C26: every renameClass call invokes renameScope once, with the workspace
\* of the renamed block, the old name and the legal name, after all the
\* notifications of the blocks; the variables declared of the old class
\* name are declared of the legal name afterwards.
C26_ScopeRenamedOnceAtEnd ==
    [][ClassReturnStep
        => /\ InvokedAt("renameScope") = {Len(calls')}
           /\ LET scope == calls'[Len(calls')]
              IN  /\ scope.ws = blocks[frame.blk].workspace
                  /\ scope.old = frame.oldName
                  /\ scope.new = frame.cand
           /\ \A id \in DOMAIN variables :
                 variables[id].type = frame.oldName
                    => variables'[id].type = frame.cand]_vars

C26_Witness ==
    /\ ret.op = "renameClass"
    /\ ret.legalName # ret.oldName
    /\ Len(calls) > NumSites
    /\ calls[Len(calls)].cap = "renameScope"
    /\ \E id \in DOMAIN variables :
          /\ InitVariables[id].type = ret.oldName
          /\ variables[id].type = ret.legalName

\* The blocks of the workspace of the renamed block that have
\* renameProcedure.
ProcedureListeners ==
    {i \in 1..Len(blocks) :
        /\ blocks[i].workspace = blocks[frame.blk].workspace
        /\ blocks[i].type = "class_get_instance"}

\* C27: when renameMethod changes the name, it calls renameProcedure(oldName,
\* legalName) on every block that has it, in traversal order; it never
\* calls renameScope, renameClass or setOldName and leaves the variables
\* as they are.
C27_MethodRenameNotifies ==
    [][MethodReturnStep
        => /\ \A k \in 1..Len(calls') : calls'[k].cap = "renameProcedure"
           /\ variables' = variables
           /\ frame.cand # frame.oldName
                 => /\ {calls'[k].blk : k \in 1..Len(calls')} = ProcedureListeners
                    /\ \A k \in 1..Len(calls') :
                          /\ calls'[k].old = frame.oldName
                          /\ calls'[k].new = frame.cand
                          /\ k < Len(calls') => calls'[k].blk < calls'[k + 1].blk]_vars

C27_Witness ==
    /\ ret.op = "renameMethod"
    /\ ret.legalName # ret.oldName
    /\ ret.legalName # ret.name
    /\ Len(calls) > 0
    /\ blocks[calls[1].blk].name = ret.legalName
    /\ \E i \in 1..Len(blocks) :
          /\ blocks[i].type = "object_variables_get"
          /\ blocks[i].workspace = blocks[ret.blk].workspace

\* ------------------------------------------------------------------------
\* Registering, reading and removing callbacks
\* ------------------------------------------------------------------------

CallbackKinds == {"button", "toolbox"}

\* What register is called with: two functions, null, undefined and the
\* string "x".
CallbackArguments == {OnClick, ClassFlyoutCategory, Null, Absent, <<"x">>}

\* What a call on the callback maps leaves in ret.
CallbackDone(op, kind, key, thrown) ==
    Done(op, 0, thrown) @@ [kind |-> kind, key |-> key]

\* registerButtonCallback(key, func) and
\* registerToolboxCategoryCallback(key, func)
RegisterCallback ==
    \E kind \in CallbackKinds : \E key \in CallbackKeys : \E func \in CallbackArguments :
        /\ pc = "idle"
        /\ IF ~IsFunction(func)
           THEN /\ ret' = CallbackDone("register", kind, key, TRUE) @@ [func |-> func]
                /\ UNCHANGED callbacks
           ELSE /\ ret' = CallbackDone("register", kind, key, FALSE) @@ [func |-> func]
                /\ callbacks' = [callbacks EXCEPT ![kind][key] = func]
        /\ calls' = <<>>
        /\ UNCHANGED <<blocks, pc, frame, variables, colour>>

\* getButtonCallback(key) and getToolboxCategoryCallback(key)
GetCallback ==
    \E kind \in CallbackKinds : \E key \in CallbackKeys :
        /\ pc = "idle"
        /\ LET result == ReadProperty(callbacks[kind], key)
           IN  ret' = CallbackDone("get", kind, key, FALSE)
                         @@ [result |-> IF Truthy(result) THEN result ELSE Null]
        /\ calls' = <<>>
        /\ UNCHANGED <<blocks, pc, frame, variables, callbacks, colour>>

\* removeButtonCallback(key) and removeToolboxCategoryCallback(key)
RemoveCallback ==
    \E kind \in CallbackKinds : \E key \in CallbackKeys :
        /\ pc = "idle"
        /\ callbacks' = [callbacks EXCEPT ![kind][key] = Null]
        /\ ret' = CallbackDone("remove", kind, key, FALSE)
        /\ calls' = <<>>
        /\ UNCHANGED <<blocks, pc, frame, variables, colour>>

CallbackInit == TrackerInit(<<>>)

CallbackNext ==
    \/ RegisterCallback
    \/ GetCallback
    \/ RemoveCallback

CallbackSpec == CallbackInit /\ [][CallbackNext]_vars

\* C29: register with a value that is no function throws and leaves the
\* maps as they are; register with a function stores it under the key; the
\* getter returns the function last registered under the key, and null
\* when the key was removed or never registered.
C29_CallbackRegistry ==
    [][/\ ret'.op = "register"
             => IF IsFunction(ret'.func)
                THEN /\ ~ret'.thrown
                     /\ callbacks'[ret'.kind][ret'.key] = ret'.func
                ELSE /\ ret'.thrown
                     /\ callbacks' = callbacks
       /\ ret'.op = "get"
             => ret'.result = IF IsFunction(callbacks[ret'.kind][ret'.key])
                              THEN callbacks[ret'.kind][ret'.key]
                              ELSE Null]_vars

\* ------------------------------------------------------------------------
\* update(oldName, legalName) called from the validator of a method's name
\* ------------------------------------------------------------------------

\* The locals of the validator of the name field of method block m while
\* it notifies the sites: the field still holds oldName.
ValidatorFrame(m, oldName, legalName) ==
    [op |-> "renameField", blk |-> m, oldName |-> oldName, legalName |-> legalName]

\* The validator of the name field of method block m calls update(oldName,
\* legalName) on site i before the field takes the legal name.
UpdateInValidator ==
    \E i \in Sites : \E m \in LiveMethods : \E n \in NewMethodNames :
        /\ pc = "idle"
        /\ ~IsNameUsed(blocks, n, blocks[m].workspace, m, "method")
        /\ n # blocks[m].name
        /\ blocks' = [blocks EXCEPT ![i] = SiteUpdate(blocks, i, blocks[m].name, n)]
        /\ ret' = Done("update", i, FALSE)
        /\ calls' = <<Call("update", i, blocks[m].name, n)>>
        /\ pc' = "renaming"
        /\ frame' = ValidatorFrame(m, blocks[m].name, n)
        /\ UNCHANGED <<variables, callbacks, colour>>

\* The validator returns and the field stores the legal name.
FieldTakesName ==
    /\ pc = "renaming"
    /\ blocks' = [blocks EXCEPT ![frame.blk].name = frame.legalName,
                                ![frame.blk].oldName = frame.oldName]
    /\ ret' = Done("renameMethodField", frame.blk, FALSE)
    /\ calls' = <<>>
    /\ pc' = "idle"
    /\ frame' = NoFrame
    /\ UNCHANGED <<variables, callbacks, colour>>

\* A class with two methods and an attribute, and a site.
ValidatorBlocks ==
    <<ClassDefinition("main", Animal, <<2, 3>>, <<Age>>, 10),
      MethodDefinition("class_function_noreturn", "main", Speak, 1, <<>>),
      MethodDefinition("class_function_return", "main", Run, 1, <<>>),
      ReferenceSite("main", "pet", <<>>, FALSE)>>

ValidatorInit == TrackerInit(ValidatorBlocks)

\* Renames of the methods that tell the site, before or after the field
\* has changed, between selections and runs of onchange.
ValidatorNext ==
    \/ UpdateInValidator
    \/ FieldTakesName
    \/ RenameMethodField
    \/ UpdateCall
    \/ SelectMember
    \/ SiteOnChange

ValidatorSpec == ValidatorInit /\ [][ValidatorNext]_vars

\* A method of the class called name is being renamed, or was renamed, from
\* oldName to newName.
RenamedMethod(name, oldName, newName) ==
    \E c \in LiveClasses : \E m \in Range(blocks[c].methods) :
        /\ blocks[c].name = name
        /\ \/ blocks[m].name = oldName
           \/ blocks[m].name = newName /\ blocks[m].oldName = oldName

\* C30: after update(oldName, newName) has rebuilt the dropdown of a site of
\* a class with a method renamed from oldName to newName, no option has the
\* value oldName and exactly one has the value newName.
C30_RenamedOptionOnce ==
    [][\A i \in Sites :
          (/\ UpdateStep(i)
           /\ blocks[i].varTypeIsSet
           /\ Truthy(calls'[1].old)
           /\ RenamedMethod(GetClassName(blocks[i]), calls'[1].old, calls'[1].new))
             => /\ \A k \in 1..Len(blocks'[i].data) :
                      blocks'[i].data[k].value # calls'[1].old
                /\ Cardinality({k \in 1..Len(blocks'[i].data) :
                                   blocks'[i].data[k].value = calls'[1].new}) = 1]_vars

\* ------------------------------------------------------------------------
\* The life of a binding: renames of the class among the handlers of the
\* reference sites
\* ------------------------------------------------------------------------

\* A class with a method of one parameter, an unfinalized
\* site, an instance block, a site on the variable pet and a site on a
\* variable of class Car, which no class block defines yet.
LifecycleBlocks ==
    <<ClassDefinition("main", Animal, <<2>>, <<>>, 10),
      MethodDefinition("class_function_noreturn", "main", Speak, 1, <<"a">>),
      ReferenceSite("main", "stray", <<>>, FALSE),
      InstanceBlock("main", Animal, Speak),
      ReferenceSite("main", "pet", <<>>, FALSE),
      ReferenceSite("main", "other", <<>>, FALSE)>>

\* The user picks another variable in the variable field of site i.
SelectVariable ==
    \E i \in Sites : \E id \in DOMAIN variables :
        /\ blocks[i].var # id
        /\ Edit("selectVariable", i, [blocks[i] EXCEPT !.var = id])

LifecycleInit == TrackerInit(LifecycleBlocks)

\* The validator of the class name, the cascade of mutateCallers and the
\* handlers of the sites.
LifecycleNext ==
    \/ RenameClassCall
    \/ FindLegalNameStep
    \/ RenameClassReturn
    \/ SiteOnChange
    \/ UpdateCall
    \/ MutateCallersCall
    \/ MutateCallersStep

LifecycleSpec == LifecycleInit /\ [][LifecycleNext]_vars

\* The step belongs to a cascade: the return of renameClass with its
\* notification loop, update, or a step of mutateCallers.
CascadeStep ==
    ret'.op \in {"renameClass", "update", "mutateCallers.call",
                 "mutateCallers.update", "mutateCallers"}

\* C31: a site whose binding is not finalized is not among the callers of
\* any class, also not of the class whose name it stores, and the return of
\* renameClass, update and the steps of mutateCallers leave the whole site
\* (stored class name, dropdown, selection) as it was.
C31_UnfinalizedUntouched ==
    [][\A i \in Sites :
          ~blocks[i].varTypeIsSet
             => /\ i \notin Range(GetCallers(blocks, blocks[i].varType,
                                             blocks[i].workspace))
                /\ pc' = "cascade" => i \notin Range(frame'.callers)
                /\ CascadeStep => blocks'[i] = blocks[i]]_vars

\* renameClass(old, new) has been invoked on an unfinalized site that stores
\* old, and the site stores it still.
C31_Witness ==
    /\ ret.op = "renameClass"
    /\ ret.oldName # ret.legalName
    /\ \E i \in Sites :
          /\ ~blocks[i].varTypeIsSet
          /\ blocks[i].varType = ret.oldName
          /\ Call("renameClass", i, ret.oldName, ret.legalName) \in Range(calls)

\* A class with a method, and one site whose variable the user may change.
RebindBlocks ==
    <<ClassDefinition("main", Animal, <<2>>, <<>>, 10),
      MethodDefinition("class_function_noreturn", "main", Speak, 1, <<"a">>),
      ReferenceSite("main", "pet", <<>>, FALSE)>>

RebindInit == TrackerInit(RebindBlocks)

\* The validator of the class name and the choice of the variable among
\* the handlers of the site.
RebindNext ==
    \/ RenameClassCall
    \/ FindLegalNameStep
    \/ RenameClassReturn
    \/ SelectVariable
    \/ SiteOnChange
    \/ UpdateCall

RebindSpec == RebindInit /\ [][RebindNext]_vars

\* The notification loop of the step invoked renameClass on site i with its
\* stored class name as the old name and the name it stores now as the new.
RenamedByCascade(i) ==
    /\ ret'.op = "renameClass"
    /\ Call("renameClass", i, blocks[i].varType, blocks'[i].varType) \in Range(calls')

\* C32: a finalized site stays finalized in every step, and its stored
\* class name changes only in a step whose notification loop invoked the
\* site's renameClass with the stored name; onchange no longer reads the
\* type of the variable.
C32_FinalizedForGood ==
    [][\A i \in Sites :
          blocks[i].varTypeIsSet
             => /\ blocks'[i].varTypeIsSet
                /\ blocks'[i].varType # blocks[i].varType => RenamedByCascade(i)]_vars

\* onchange has run on a finalized site whose variable is declared of
\* another class than the one the site stores.
C32_Witness ==
    /\ ret.op = "onchange"
    /\ blocks[ret.blk].varTypeIsSet
    /\ variables[blocks[ret.blk].var].typeSet
    /\ variables[blocks[ret.blk].var].type # blocks[ret.blk].varType

\* ------------------------------------------------------------------------
\* variables_get, and the flag typeSet of the variable models
\* ------------------------------------------------------------------------

\* variables_get after init, on the variable var.
VariablesGet(ws, var) ==
    [type |-> "variables_get", workspace |-> ws, name |-> <<>>, parent |-> 0,
     varType |-> <<>>, varTypeIsSet |-> FALSE, oldName |-> <<>>,
     var |-> var, colourIsSet |-> FALSE, colour |-> 0]

IsGetter(b) == b.type = "variables_get"

Getters == {i \in 1..Len(blocks) : IsGetter(blocks[i])}

\* variables_get.onchange on block i: the colour, then the class name read
\* from the variable until the variable's type is set.
VariablesGetOnChange(bs, vs, i) ==
    OnChangeBind(bs, vs, OnChangeColour(bs, vs, bs[i]))

\* The change listener runs onchange of the variables_get block i.
GetterOnChange ==
    \E i \in Getters :
        /\ pc = "idle"
        /\ blocks' = [blocks EXCEPT ![i] = VariablesGetOnChange(blocks, variables, i)]
        /\ ret' = Done("getter.onchange", i, FALSE)
        /\ calls' = <<>>
        /\ UNCHANGED <<pc, frame, variables, callbacks, colour>>

\* A class, two variables_set blocks on the variable pet and one on ghost,
\* a reference site and a variables_get block on each variable.
TypeSetBlocks ==
    <<ClassDefinition("main", Animal, <<2>>, <<Age>>, 10),
      MethodDefinition("class_function_noreturn", "main", Speak, 1, <<>>),
      VariablesSet("main", "pet", FALSE),
      VariablesSet("main", "pet", FALSE),
      VariablesSet("main", "ghost", FALSE),
      ReferenceSite("main", "pet", <<>>, FALSE),
      VariablesGet("main", "pet"),
      ReferenceSite("main", "ghost", <<>>, FALSE),
      VariablesGet("main", "ghost")>>

TypeSetInit ==
    /\ blocks = TypeSetBlocks
    /\ pc = "idle"
    /\ frame = NoFrame
    /\ calls = <<>>
    /\ ret = Done("none", 0, FALSE)
    /\ variables = BindVariables
    /\ callbacks = InitCallbacks
    /\ colour = 0

\* The handlers of the three kinds of variable blocks, and the user
\* plugging the input VALUE.
TypeSetNext ==
    \/ PlugValue
    \/ SetterOnChange
    \/ SiteOnChange
    \/ GetterOnChange

TypeSetSpec == TypeSetInit /\ [][TypeSetNext]_vars

\* C33: the flag typeSet of a variable, false at first, is raised only by
\* onchange of a variables_set block on that variable whose input VALUE
\* holds a block, and is never lowered; a reference site or a variables_get
\* block becomes finalized only in a step that finds the flag of its
\* variable raised.
C33_TypeSetBeforeFinalized ==
    [][/\ \A id \in DOMAIN variables :
             /\ variables[id].typeSet => variables'[id].typeSet
             /\ (~variables[id].typeSet /\ variables'[id].typeSet)
                   => /\ ret'.op = "setter.onchange"
                      /\ IsSetter(blocks[ret'.blk])
                      /\ blocks[ret'.blk].var = id
                      /\ blocks[ret'.blk].value
       /\ \A i \in Sites \cup Getters :
             (~blocks[i].varTypeIsSet /\ blocks'[i].varTypeIsSet)
                => /\ variables[blocks[i].var].typeSet
                   /\ ret'.op \in {"onchange", "getter.onchange"}
                   /\ ret'.blk = i]_vars

\* A site and a variables_get block of the variable pet are finalized, and
\* the site and the variables_get block of ghost, whose flag is not raised,
\* are not although onchange has just run on one of them; the inputs VALUE
\* on pet are empty again.
C33_Witness ==
    /\ \A i \in Setters : ~blocks[i].value
    /\ \A i \in Sites \cup Getters :
          blocks[i].varTypeIsSet <=> blocks[i].var = "pet"
    /\ \E i \in Getters : blocks[i].var = "pet"
    /\ ret.op \in {"onchange", "getter.onchange"}
    /\ blocks[ret.blk].var = "ghost"
    /\ blocks[ret.blk].varType = Ghost

\* ------------------------------------------------------------------------
\* The argument sockets and their counter
\* ------------------------------------------------------------------------

\* A class with an attribute and a method of two parameters, and a site.
SocketBlocks ==
    <<ClassDefinition("main", Animal, <<2>>, <<Age>>, 10),
      MethodDefinition("class_function_noreturn", "main", Run, 1, <<"a", "b">>),
      ReferenceSite("main", "pet", <<>>, FALSE)>>

SocketInit == TrackerInit(SocketBlocks)

\* The edits of the signature and of the method's name and the choice of a
\* member, with the handlers of the site.
SocketNext ==
    \/ AddParameter
    \/ RemoveParameter
    \/ RenameMethodField
    \/ SelectMember
    \/ SiteOnChange
    \/ UpdateCall

SocketSpec == SocketInit /\ [][SocketNext]_vars

\* C34: in every state the counter args of a site is the number of its
\* argument sockets, and the sockets are ARG0 .. ARG(args - 1), in this
\* order.
C34_SocketsMatchCounter ==
    \A i \in Sites :
        /\ blocks[i].args = Len(blocks[i].sockets)
        /\ \A k \in 1..Len(blocks[i].sockets) : blocks[i].sockets[k].arg = k - 1

\* onchange has run on a site with two sockets whose dropdown names a
\* method that no method block has any more.
C34_Witness ==
    /\ ret.op = "onchange"
    /\ ~ret.thrown
    /\ Truthy(blocks[ret.blk].field)
    /\ blocks[ret.blk].field \notin Range(blocks[ret.blk].classVariables)
    /\ \A m \in LiveMethods : blocks[m].name # blocks[ret.blk].field
    /\ blocks[ret.blk].argNames = False
    /\ blocks[ret.blk].args = 2
    /\ Len(blocks[ret.blk].sockets) = 2

\* ------------------------------------------------------------------------
\* The attribute branch of onchange
\* ------------------------------------------------------------------------

\* A class with an attribute and a method of one parameter and no return
\* value, and a site.
AttributeBlocks ==
    <<ClassDefinition("main", Animal, <<2>>, <<Age>>, 10),
      MethodDefinition("class_function_noreturn", "main", Speak, 1, <<"a">>),
      ReferenceSite("main", "pet", <<>>, FALSE)>>

AttributeInit == TrackerInit(AttributeBlocks)

\* The edits of the attributes, the choice of a member and the connections
\* of the site, with the handlers of the site.
AttributeNext ==
    \/ AddAttribute
    \/ RemoveAttribute
    \/ SelectMember
    \/ Plug
    \/ SiteOnChange
    \/ UpdateCall

AttributeSpec == AttributeInit /\ [][AttributeNext]_vars

\* The dropdown of site i has no value, or its value is an attribute the
\* class of the site has now.
SelectsAttribute(i) ==
    \/ ~Truthy(blocks[i].field)
    \/ blocks[i].field \in Range(GetClassVariables(blocks, MainWorkspace,
                                                   GetClassName(blocks'[i])))

\* C35: after onchange of a finalized site that has no selection or whose
\* selection is an attribute of its class, the site has no argument socket,
\* its kind is "attribute", it has an output and neither a previous nor a
\* next connection, and the handler ended without an error.
C35_AttributeShape ==
    [][\A i \in Sites :
          (OnChangeStep(i) /\ SelectsAttribute(i))
             => /\ blocks'[i].args = 0
                /\ blocks'[i].sockets = <<>>
                /\ blocks'[i].typeOfValue = "attribute"
                /\ IsExpression(blocks'[i])
                /\ ~ret'.thrown]_vars

\* onchange has run on a site that was a connected statement and selects an
\* attribute of its class now: it is an expression without sockets.
C35_Witness ==
    /\ ret.op = "onchange"
    /\ ~ret.thrown
    /\ "previous" \in ret.connected
    /\ blocks[ret.blk].varTypeIsSet
    /\ blocks[ret.blk].field \in Range(GetClassVariables(blocks, MainWorkspace,
                                                         blocks[ret.blk].varType))
    /\ blocks[ret.blk].curValue = blocks[ret.blk].field
    /\ blocks[ret.blk].typeOfValue = "attribute"
    /\ blocks[ret.blk].sockets = <<>>
    /\ IsExpression(blocks[ret.blk])

\* ------------------------------------------------------------------------
\* The notification loop of renameClass
\* ------------------------------------------------------------------------

\* The calls of the step up to the call of renameScope.
Notifications == SubSeq(calls', 1, Len(calls') - 1)

\* The positions at which the step invoked cap on block i.
NotifiedAt(cap, i) ==
    {k \in 1..Len(Notifications) :
        Notifications[k].cap = cap /\ Notifications[k].blk = i}

\* C36: a renameClass call that propagates visits the blocks of the
\* workspace in traversal order; it invokes renameClass(oldName, legalName)
\* once on every block that has it and then setOldName(oldName) once on
\* every block that has it, bound to oldName or not, and on no other block.
C36_VisitOrder ==
    [][(ClassReturnStep /\ Propagates(frame.oldName, frame.name, frame.cand))
        => /\ \A k, l \in 1..Len(Notifications) :
                 k < l => \/ Notifications[k].blk < Notifications[l].blk
                          \/ /\ Notifications[k].blk = Notifications[l].blk
                             /\ Notifications[k].cap = "renameClass"
                             /\ Notifications[l].cap = "setOldName"
           /\ \A i \in 1..Len(blocks) :
                 LET visited == blocks[i].workspace = blocks[frame.blk].workspace
                 IN  /\ Cardinality(NotifiedAt("renameClass", i))
                          = IF visited /\ HasRenameClass(blocks[i]) THEN 1 ELSE 0
                     /\ Cardinality(NotifiedAt("setOldName", i))
                          = IF visited /\ HasSetOldName(blocks[i]) THEN 1 ELSE 0
                     /\ (visited /\ HasSetOldName(blocks[i]))
                           => blocks'[i].oldName = frame.oldName
           /\ \A k \in 1..Len(Notifications) :
                 /\ Notifications[k].old = frame.oldName
                 /\ Notifications[k].cap = "renameClass"
                       => Notifications[k].new = frame.cand]_vars

\* A rename has handed the old name to a block that was bound to another
\* class, after invoking the block's renameClass.
C36_Witness ==
    /\ ret.op = "renameClass"
    /\ \E i \in 1..Len(blocks) : \E k, l \in 1..Len(calls) :
          /\ HasSetOldName(blocks[i])
          /\ blocks[i].varType # ret.legalName
          /\ blocks[i].oldName = ret.oldName
          /\ k < l
          /\ calls[k] = Call("renameClass", i, ret.oldName, ret.legalName)
          /\ calls[l] = Call("setOldName", i, ret.oldName, <<>>)

\* ------------------------------------------------------------------------
\* Renames among sites of several classes
\* ------------------------------------------------------------------------

\* Two classes with an attribute each, and a site on a variable of each.
CaptureBlocks ==
    <<ClassDefinition("main", Animal, <<>>, <<Legs>>, 10),
      ClassDefinition("main", Car, <<>>, <<Age>>, 20),
      ReferenceSite("main", "pet", <<>>, FALSE),
      ReferenceSite("main", "other", <<>>, FALSE)>>

CaptureInit == TrackerInit(CaptureBlocks)

\* The validator of the class name and the deletion of a class among the
\* handlers of the sites.
CaptureNext ==
    \/ RenameClassCall
    \/ FindLegalNameStep
    \/ RenameClassReturn
    \/ DisposeClass
    \/ SiteOnChange

CaptureSpec == CaptureInit /\ [][CaptureNext]_vars

\* C37: a renameClass call leaves every site that is not bound to oldName
\* as it is (class name, selection, sockets, connections), and the callers
\* of legalName after the call are the callers of oldName before it, in the
\* same order.
C37_RenameFrame ==
    [][ClassReturnStep
        => LET ws == blocks[frame.blk].workspace
           IN  /\ \A i \in Sites :
                     GetClassName(blocks[i]) # frame.oldName
                        => blocks'[i] = blocks[i]
               /\ GetCallers(blocks', frame.cand, ws)
                     = GetCallers(blocks, frame.oldName, ws)]_vars

\* ------------------------------------------------------------------------
\* Blockly.Class.colour
\* ------------------------------------------------------------------------

\* colour += 10
HueStep == 10

\* if (colour > 360) colour -= 360
HueMax == 360

\* Blockly.Class.colour(): the counter after the call, which is also what
\* the call returns.
Colour(c) ==
    IF c + HueStep > HueMax THEN c + HueStep - HueMax ELSE c + HueStep

\* The calls of Blockly.Class.colour a behaviour makes at most.
MaxColourCalls == 120

\* A call of Blockly.Class.colour, as the init of a class block makes it.
ColourCall ==
    /\ pc = "idle"
    /\ Len(calls) < MaxColourCalls
    /\ colour' = Colour(colour)
    /\ calls' = Append(calls, [cap |-> "colour", hue |-> Colour(colour)])
    /\ ret' = Done("colour", 0, FALSE) @@ [hue |-> Colour(colour)]
    /\ UNCHANGED <<blocks, pc, frame, variables, callbacks>>

ColourInit == TrackerInit(<<>>)

ColourNext == ColourCall

ColourSpec == ColourInit /\ [][ColourNext]_vars

\* C38: every hue Blockly.Class.colour has returned is a multiple of 10
\* between 10 and 360, and no two calls have returned the same hue.
C38_HuesDistinct ==
    \A k \in 1..Len(calls) :
        /\ calls[k].hue % 10 = 0
        /\ calls[k].hue >= 10
        /\ calls[k].hue <= 360
        /\ \A l \in 1..Len(calls) : l # k => calls[l].hue # calls[k].hue

\* ------------------------------------------------------------------------
\* Blockly.Class.arraysEqual
\* ------------------------------------------------------------------------

\* The longest array arraysEqual is called with.
MaxItems == 3

Items == {"a", "b"}

\* The arrays of at most MaxItems items.
Arrays == UNION {[1..n -> Items] : n \in 0..MaxItems}

\* The arguments of a call that has not been made yet.
ArraysFrame(arr1, arr2) == [op |-> "arraysEqual", arr1 |-> arr1, arr2 |-> arr2]

ArraysInit ==
    /\ blocks = <<>>
    /\ pc = "idle"
    /\ \E arr1 \in Arrays : \E arr2 \in Arrays : frame = ArraysFrame(arr1, arr2)
    /\ calls = <<>>
    /\ ret = Done("none", 0, FALSE)
    /\ variables = TrackerVariables
    /\ callbacks = InitCallbacks
    /\ colour = 0

\* The call Blockly.Class.arraysEqual(arr1, arr2).
ArraysEqualCall ==
    /\ pc = "idle"
    /\ frame.op = "arraysEqual"
    /\ ret' = Done("arraysEqual", 0, FALSE)
                 @@ [arr1 |-> frame.arr1, arr2 |-> frame.arr2,
                     result |-> ArraysEqual(frame.arr1, frame.arr2)]
    /\ frame' = NoFrame
    /\ UNCHANGED <<blocks, pc, calls, variables, callbacks, colour>>

ArraysNext == ArraysEqualCall

ArraysSpec == ArraysInit /\ [][ArraysNext]_vars

\* The positions, counted from 0, at which the arrays of the last call
\* differ.
Unequal == {k \in 0..(Len(ret.arr1) - 1) : ret.arr1[k + 1] # ret.arr2[k + 1]}

\* C39: arraysEqual returns false for arrays of different lengths, true for
\* arrays of the same length whose items are all equal, and otherwise the
\* lowest position at which the items differ.
C39_FirstUnequal ==
    ret.op = "arraysEqual"
        => ret.result = IF Len(ret.arr1) # Len(ret.arr2) THEN ArraysEqualFalse
                        ELSE IF Unequal = {} THEN ArraysEqualTrue
                        ELSE Min(Unequal)

====
